---- MODULE Spec2Model ----
\* A model of the RecruitMaster server: the in-memory store MemStorage
\* (server/storage.ts) and the REST routes registered over it (server/routes.ts).
\*
\* Encoding of JavaScript values
\*   - a string that is only compared and tested for emptiness is a TLA+ string;
\*   - a string that is searched (candidate name, email, the search filter) is a
\*     sequence of one-character strings, so toLowerCase and includes are computed;
\*   - a nullable value is an option: Null is the empty sequence, Some(v) is <<v>>;
\*   - an object with optional keys is a function whose domain holds the keys that
\*     are present (an absent key reads as undefined);
\*   - a Map is the sequence of its entries [key, val] in insertion order;
\*   - a Date is the integer clock reading it was made from.
EXTENDS Integers, Sequences, FiniteSets, TLC

\* ---------------------------------------------------------------- bounds
MaxAssigned == 3    \* no create is attempted once the two collections together
                    \* have been assigned MaxAssigned ids (the seeded one included)
MaxTime == 3        \* the clock stops advancing at MaxTime
MaxInFlight == 2    \* no handler starts while MaxInFlight handlers are suspended

VARIABLES
    users,            \* MemStorage.users
    positions,        \* MemStorage.positions
    candidates,       \* MemStorage.candidates
    nextPositionId,   \* MemStorage.nextPositionId
    nextCandidateId,  \* MemStorage.nextCandidateId
    now,              \* the latest reading of the system clock (new Date())
    res,              \* the last store call and what it returned or threw
    http,             \* the last HTTP request and the response sent for it
    assigned,         \* per collection, every id a create has assigned so far
    deleted,          \* per collection, every id a delete has removed so far
    pending,          \* the handlers suspended at the await of their store call
    client            \* the browser page: its mutation in flight, what the last
                      \* mutation's callbacks did, and where the page is

vars == <<users, positions, candidates, nextPositionId, nextCandidateId, now,
          res, http, assigned, deleted, pending, client>>

store == <<users, positions, candidates, nextPositionId, nextCandidateId>>

\* The bound on creates (the counters themselves are unbounded in the program):
\* fewer than limit ids have been assigned so far.
CanCreate(limit) ==
    Cardinality(assigned.positions) + Cardinality(assigned.candidates) < limit

\* ---------------------------------------------------------------- values
Null == <<>>
Some(v) == <<v>>

\* The key read without the || d fallback: an absent key gives no usable value.
StrOrNoDefault(obj, key, d) ==
    IF key \in DOMAIN obj THEN obj[key] ELSE "undefined"

\* x || d for a string-valued optional key of an object: undefined (absent key),
\* null and "" are falsy.
StrOr(obj, key, d) ==
    IF key \in DOMAIN obj /\ obj[key] # "" THEN obj[key] ELSE d

\* x || null for a nullable string key: absent, null and "" give null.
OptStrOrNull(obj, key) ==
    IF key \in DOMAIN obj /\ obj[key] # Null /\ obj[key] # Some("")
    THEN obj[key] ELSE Null

\* x || null for a nullable number key: absent, null and 0 give null.
OptNumOrNull(obj, key) ==
    IF key \in DOMAIN obj /\ obj[key] # Null /\ obj[key] # Some(0)
    THEN obj[key] ELSE Null

\* { ...a, ...b }: the keys of both, b's value where b has the key.
Spread(a, b) ==
    [k \in DOMAIN a \cup DOMAIN b |-> IF k \in DOMAIN b THEN b[k] ELSE a[k]]

\* counter++ : the value the counter holds after the post-increment.
PostIncrementSkipped(n) == n

PostIncrement(n) == n + 1

\* ---------------------------------------------------------------- Map
MapKeys(m) == {m[i].key : i \in DOMAIN m}

MapHas(m, k) == k \in MapKeys(m)

MapIndex(m, k) == CHOOSE i \in DOMAIN m : m[i].key = k

MapGet(m, k) == m[MapIndex(m, k)].val

\* A list pushed to instead of a Map: setting an existing key adds a second entry.
MapSetAppends(m, k, v) == Append(m, [key |-> k, val |-> v])

\* Setting an existing key moves its entry to the end of the insertion order.
MapSetMovesToEnd(m, k, v) ==
    Append(SelectSeq(m, LAMBDA e : e.key # k), [key |-> k, val |-> v])

\* Map.set: an existing key keeps its place in the insertion order.
MapSet(m, k, v) ==
    IF MapHas(m, k)
    THEN [m EXCEPT ![MapIndex(m, k)] = [key |-> k, val |-> v]]
    ELSE Append(m, [key |-> k, val |-> v])

MapDeleteNothing(m, k) == m

MapDelete(m, k) == SelectSeq(m, LAMBDA e : e.key # k)

MapValues(m) == [i \in DOMAIN m |-> m[i].val]

MapSize(m) == Len(m)

\* ---------------------------------------------------------------- clock
\* new Date(): a reading of the system clock, which never runs backwards. Between
\* the previous reading and this one the clock has advanced by a tick or not at
\* all (only the order of readings is observable); it stops at MaxTime.
NewDate(t) == {u \in {t, t + 1} : u <= MaxTime}

\* ---------------------------------------------------------------- positions
SeedPosition(t1, t2) ==
    [id |-> 1,
     title |-> "Senior Frontend Developer",
     department |-> "Engineering",
     location |-> "Remote",
     description |-> Some("We're looking for a Senior Frontend Developer to join our engineering team."),
     status |-> "Active",
     createdAt |-> t1,
     updatedAt |-> t2]

NewPosition(id, position, t1, t2) ==
    [id |-> id,
     title |-> position.title,
     department |-> position.department,
     location |-> position.location,
     description |-> OptStrOrNull(position, "description"),
     status |-> StrOr(position, "status", "Active"),
     createdAt |-> t1,
     updatedAt |-> t2]

CreatePosition(position) ==
    /\ \E t1 \in NewDate(now) : \E t2 \in NewDate(t1) :
        LET newPosition == NewPosition(nextPositionId, position, t1, t2) IN
        /\ nextPositionId' = PostIncrement(nextPositionId)
        /\ positions' = MapSet(positions, newPosition.id, newPosition)
        /\ now' = t2
        /\ res' = [op |-> "createPosition", ok |-> TRUE, id |-> newPosition.id,
                   arg |-> position, ret |-> newPosition]
        /\ assigned' = [assigned EXCEPT !.positions = @ \cup {newPosition.id}]
    /\ UNCHANGED <<users, candidates, nextCandidateId, deleted>>

\* Both timestamps refreshed by the update.
MergedPositionTouchesCreatedAt(existingPosition, position, t) ==
    Spread(Spread(existingPosition, position),
           [createdAt |-> t, updatedAt |-> t])

MergedPosition(existingPosition, position, t) ==
    Spread(Spread(existingPosition, position), [updatedAt |-> t])

\* The merged record stored before the existence check: an absent id gets a
\* record made of the partial alone, and then the error is thrown.
UpdatePositionStoresBeforeCheck(id, position) ==
    \E t \in NewDate(now) :
        LET existing == MapHas(positions, id)
            updatedPosition ==
                MergedPosition(IF existing THEN MapGet(positions, id) ELSE <<>>,
                               position, t)
        IN  /\ positions' = MapSet(positions, id, updatedPosition)
            /\ now' = t
            /\ res' = [op |-> "updatePosition", ok |-> existing, id |-> id,
                       arg |-> position,
                       ret |-> IF existing THEN updatedPosition ELSE "not found"]
            /\ UNCHANGED <<users, candidates, nextPositionId, nextCandidateId,
                           assigned, deleted>>

UpdatePosition(id, position) ==
    IF ~MapHas(positions, id)
    THEN /\ res' = [op |-> "updatePosition", ok |-> FALSE, id |-> id,
                    arg |-> position, ret |-> "not found"]
         /\ UNCHANGED <<store, now, assigned, deleted>>
    ELSE \E t \in NewDate(now) :
         LET updatedPosition == MergedPosition(MapGet(positions, id), position, t) IN
         /\ positions' = MapSet(positions, id, updatedPosition)
         /\ now' = t
         /\ res' = [op |-> "updatePosition", ok |-> TRUE, id |-> id,
                    arg |-> position, ret |-> updatedPosition]
         /\ UNCHANGED <<users, candidates, nextPositionId, nextCandidateId,
                        assigned, deleted>>

\* A delete that cascades: the candidates that refer to the position go with it.
DeletePositionCascades(id) ==
    IF ~MapHas(positions, id)
    THEN /\ res' = [op |-> "deletePosition", ok |-> FALSE, id |-> id,
                    arg |-> <<>>, ret |-> "not found"]
         /\ UNCHANGED <<store, now, assigned, deleted>>
    ELSE /\ positions' = MapDelete(positions, id)
         /\ candidates' = SelectSeq(candidates,
                                    LAMBDA e : e.val.positionId # Some(id))
         /\ res' = [op |-> "deletePosition", ok |-> TRUE, id |-> id,
                    arg |-> <<>>, ret |-> "void"]
         /\ deleted' = [deleted EXCEPT !.positions = @ \cup {id}]
         /\ UNCHANGED <<users, nextPositionId, nextCandidateId, now, assigned>>

DeletePosition(id) ==
    IF ~MapHas(positions, id)
    THEN /\ res' = [op |-> "deletePosition", ok |-> FALSE, id |-> id,
                    arg |-> <<>>, ret |-> "not found"]
         /\ UNCHANGED <<store, now, assigned, deleted>>
    ELSE /\ positions' = MapDelete(positions, id)
         /\ res' = [op |-> "deletePosition", ok |-> TRUE, id |-> id,
                    arg |-> <<>>, ret |-> "void"]
         /\ deleted' = [deleted EXCEPT !.positions = @ \cup {id}]
         /\ UNCHANGED <<users, candidates, nextPositionId, nextCandidateId, now,
                        assigned>>

\* getTime() || 0 of a createdAt: the store never leaves createdAt null, and a
\* reading of 0 is 0 either way.
DateKey(d) == d

\* Array.prototype.sort with the comparator dateB - dateA: a stable sort, newest
\* first; records with equal createdAt keep the order they had in the array.
\* The comparator written dateA - dateB: oldest first.
InsertByDateAscending(sorted, r) ==
    LET before == {i \in DOMAIN sorted :
                      DateKey(sorted[i].createdAt) <= DateKey(r.createdAt)}
        n == Cardinality(before)
    IN  SubSeq(sorted, 1, n) \o <<r>> \o SubSeq(sorted, n + 1, Len(sorted))

InsertByDate(sorted, r) ==
    LET before == {i \in DOMAIN sorted :
                      DateKey(sorted[i].createdAt) >= DateKey(r.createdAt)}
        n == Cardinality(before)
    IN  SubSeq(sorted, 1, n) \o <<r>> \o SubSeq(sorted, n + 1, Len(sorted))

RECURSIVE SortFrom(_, _, _)
SortFrom(list, i, sorted) ==
    IF i > Len(list) THEN sorted
    ELSE SortFrom(list, i + 1, InsertByDate(sorted, list[i]))

SortByCreatedDesc(list) == SortFrom(list, 1, <<>>)

GetPositionsResult == SortByCreatedDesc(MapValues(positions))

\* The sort applied to the Map's own entries instead of a copy of its values.
GetPositionsSortsStore ==
    LET sorted == GetPositionsResult IN
    /\ res' = [op |-> "getPositions", ok |-> TRUE, id |-> 0, arg |-> <<>>,
               ret |-> sorted]
    /\ positions' = [i \in DOMAIN sorted |->
                        [key |-> sorted[i].id, val |-> sorted[i]]]
    /\ UNCHANGED <<users, candidates, nextPositionId, nextCandidateId, now,
                   assigned, deleted>>

GetPositions ==
    /\ res' = [op |-> "getPositions", ok |-> TRUE, id |-> 0, arg |-> <<>>,
               ret |-> GetPositionsResult]
    /\ UNCHANGED <<store, now, assigned, deleted>>

\* ---------------------------------------------------------------- strings
UpperCase == <<"A", "B", "C", "D", "E", "F", "G", "H", "I", "J", "K", "L", "M",
               "N", "O", "P", "Q", "R", "S", "T", "U", "V", "W", "X", "Y", "Z">>
LowerCase == <<"a", "b", "c", "d", "e", "f", "g", "h", "i", "j", "k", "l", "m",
               "n", "o", "p", "q", "r", "s", "t", "u", "v", "w", "x", "y", "z">>

LowerChar(c) ==
    IF \E i \in DOMAIN UpperCase : UpperCase[i] = c
    THEN LowerCase[CHOOSE i \in DOMAIN UpperCase : UpperCase[i] = c]
    ELSE c

\* String.prototype.toLowerCase
ToLowerCase(str) == [i \in DOMAIN str |-> LowerChar(str[i])]

\* String.prototype.includes
Includes(str, sub) ==
    \E i \in 0..(Len(str) - Len(sub)) : SubSeq(str, i + 1, i + Len(sub)) = sub

\* ---------------------------------------------------------------- candidates
NewCandidate(id, candidate, t1, t2) ==
    [id |-> id,
     email |-> candidate.email,
     name |-> candidate.name,
     phone |-> candidate.phone,
     positionApplied |-> candidate.positionApplied,
     status |-> StrOr(candidate, "status", "New"),
     resume |-> OptStrOrNull(candidate, "resume"),
     positionId |-> OptNumOrNull(candidate, "positionId"),
     createdAt |-> t1,
     updatedAt |-> t2]

\* One counter for both collections: the candidate takes its id from the
\* position counter.
CreateCandidateSharedCounter(candidate) ==
    /\ \E t1 \in NewDate(now) : \E t2 \in NewDate(t1) :
        LET newCandidate == NewCandidate(nextPositionId, candidate, t1, t2) IN
        /\ nextPositionId' = PostIncrement(nextPositionId)
        /\ candidates' = MapSet(candidates, newCandidate.id, newCandidate)
        /\ now' = t2
        /\ res' = [op |-> "createCandidate", ok |-> TRUE, id |-> newCandidate.id,
                   arg |-> candidate, ret |-> newCandidate]
        /\ assigned' = [assigned EXCEPT !.candidates = @ \cup {newCandidate.id}]
    /\ UNCHANGED <<users, positions, nextCandidateId, deleted>>

CreateCandidate(candidate) ==
    /\ \E t1 \in NewDate(now) : \E t2 \in NewDate(t1) :
        LET newCandidate == NewCandidate(nextCandidateId, candidate, t1, t2) IN
        /\ nextCandidateId' = PostIncrement(nextCandidateId)
        /\ candidates' = MapSet(candidates, newCandidate.id, newCandidate)
        /\ now' = t2
        /\ res' = [op |-> "createCandidate", ok |-> TRUE, id |-> newCandidate.id,
                   arg |-> candidate, ret |-> newCandidate]
        /\ assigned' = [assigned EXCEPT !.candidates = @ \cup {newCandidate.id}]
    /\ UNCHANGED <<users, positions, nextPositionId, deleted>>

\* The spread written the wrong way round: { ...candidate, ...existingCandidate }.
MergedCandidateExistingWins(existingCandidate, candidate, t) ==
    Spread(Spread(candidate, existingCandidate), [updatedAt |-> t])

MergedCandidate(existingCandidate, candidate, t) ==
    Spread(Spread(existingCandidate, candidate), [updatedAt |-> t])

UpdateCandidate(id, candidate) ==
    IF ~MapHas(candidates, id)
    THEN /\ res' = [op |-> "updateCandidate", ok |-> FALSE, id |-> id,
                    arg |-> candidate, ret |-> "not found"]
         /\ UNCHANGED <<store, now, assigned, deleted>>
    ELSE \E t \in NewDate(now) :
         LET updatedCandidate == MergedCandidate(MapGet(candidates, id), candidate, t) IN
         /\ candidates' = MapSet(candidates, id, updatedCandidate)
         /\ now' = t
         /\ res' = [op |-> "updateCandidate", ok |-> TRUE, id |-> id,
                    arg |-> candidate, ret |-> updatedCandidate]
         /\ UNCHANGED <<users, positions, nextPositionId, nextCandidateId,
                        assigned, deleted>>

\* A delete that hands the highest id back to the counter.
DeleteCandidateReleasesId(id) ==
    IF ~MapHas(candidates, id)
    THEN /\ res' = [op |-> "deleteCandidate", ok |-> FALSE, id |-> id,
                    arg |-> <<>>, ret |-> "not found"]
         /\ UNCHANGED <<store, now, assigned, deleted>>
    ELSE /\ candidates' = MapDelete(candidates, id)
         /\ res' = [op |-> "deleteCandidate", ok |-> TRUE, id |-> id,
                    arg |-> <<>>, ret |-> "void"]
         /\ deleted' = [deleted EXCEPT !.candidates = @ \cup {id}]
         /\ nextCandidateId' = IF id = nextCandidateId - 1 THEN id
                               ELSE nextCandidateId
         /\ UNCHANGED <<users, positions, nextPositionId, now, assigned>>

DeleteCandidate(id) ==
    IF ~MapHas(candidates, id)
    THEN /\ res' = [op |-> "deleteCandidate", ok |-> FALSE, id |-> id,
                    arg |-> <<>>, ret |-> "not found"]
         /\ UNCHANGED <<store, now, assigned, deleted>>
    ELSE /\ candidates' = MapDelete(candidates, id)
         /\ res' = [op |-> "deleteCandidate", ok |-> TRUE, id |-> id,
                    arg |-> <<>>, ret |-> "void"]
         /\ deleted' = [deleted EXCEPT !.candidates = @ \cup {id}]
         /\ UNCHANGED <<users, positions, nextPositionId, nextCandidateId, now,
                        assigned>>

\* ---------------------------------------------------------------- filters
\* if (filters.key): the key is present (not undefined) and its string is not
\* empty. The search string is a sequence of characters.
\* The test written filters.key !== undefined: an empty string is a filter.
TruthyWhenPresent(filters, key) == key \in DOMAIN filters

Truthy(filters, key) ==
    /\ key \in DOMAIN filters
    /\ IF key = "search" THEN filters[key] # <<>> ELSE filters[key] # ""

PositionFilter(list, filters) ==
    IF Truthy(filters, "position")
    THEN SelectSeq(list, LAMBDA c : c.positionApplied = filters.position)
    ELSE list

\* The status filter left out.
StatusFilterIgnored(list, filters) == list

StatusFilter(list, filters) ==
    IF Truthy(filters, "status")
    THEN SelectSeq(list, LAMBDA c : c.status = filters.status)
    ELSE list

\* The candidate's fields compared without lowering them.
SearchMatchCaseSensitive(c, searchLower) ==
    \/ Includes(c.name, searchLower)
    \/ Includes(c.email, searchLower)

SearchMatch(c, searchLower) ==
    \/ Includes(ToLowerCase(c.name), searchLower)
    \/ Includes(ToLowerCase(c.email), searchLower)

SearchFilter(list, filters) ==
    IF Truthy(filters, "search")
    THEN LET searchLower == ToLowerCase(filters.search)
         IN  SelectSeq(list, LAMBDA c : SearchMatch(c, searchLower))
    ELSE list

\* filtersArg is Null when getCandidates is called without an argument.
GetCandidatesResult(filtersArg) ==
    LET candidatesList == MapValues(candidates)
        filtered ==
            IF filtersArg # Null
            THEN SearchFilter(StatusFilter(PositionFilter(candidatesList,
                                                          filtersArg[1]),
                                           filtersArg[1]),
                              filtersArg[1])
            ELSE candidatesList
    IN  SortByCreatedDesc(filtered)

GetCandidates(filtersArg) ==
    /\ res' = [op |-> "getCandidates", ok |-> TRUE, id |-> 0, arg |-> filtersArg,
               ret |-> GetCandidatesResult(filtersArg)]
    /\ UNCHANGED <<store, now, assigned, deleted>>

\* ---------------------------------------------------------------- stats
CountStatus(list, status) == Len(SelectSeq(list, LAMBDA c : c.status = status))

\* The totals taken from the id counters instead of the collections.
GetDashboardStatsFromCounters ==
    LET candidatesList == MapValues(candidates) IN
    [totalPositions |-> nextPositionId - 1,
     totalCandidates |-> nextCandidateId - 1,
     inReview |-> CountStatus(candidatesList, "In Review"),
     shortlisted |-> CountStatus(candidatesList, "Shortlisted")]

GetDashboardStatsResult ==
    LET candidatesList == MapValues(candidates) IN
    [totalPositions |-> MapSize(positions),
     totalCandidates |-> Len(candidatesList),
     inReview |-> CountStatus(candidatesList, "In Review"),
     shortlisted |-> CountStatus(candidatesList, "Shortlisted")]

GetDashboardStats ==
    /\ res' = [op |-> "getDashboardStats", ok |-> TRUE, id |-> 0, arg |-> <<>>,
               ret |-> GetDashboardStatsResult]
    /\ UNCHANGED <<store, now, assigned, deleted>>

\* ---------------------------------------------------------------- users
\* existingUser?.createdAt || new Date(): the clock is read only for a new user.
\* createdAt taken from the clock whether or not the user exists.
NewUserFreshCreatedAt(userData, createdAt, t) ==
    [id |-> userData.id,
     email |-> OptStrOrNull(userData, "email"),
     firstName |-> OptStrOrNull(userData, "firstName"),
     lastName |-> OptStrOrNull(userData, "lastName"),
     profileImageUrl |-> OptStrOrNull(userData, "profileImageUrl"),
     createdAt |-> t,
     updatedAt |-> t]

\* The new data merged into the existing record: a field the call leaves out
\* keeps the value stored before.
NewUserMerged(userData, createdAt, t) ==
    LET kept(key) == IF OptStrOrNull(userData, key) = Null
                        /\ MapHas(users, userData.id)
                     THEN MapGet(users, userData.id)[key]
                     ELSE OptStrOrNull(userData, key)
    IN  [id |-> userData.id,
         email |-> kept("email"),
         firstName |-> kept("firstName"),
         lastName |-> kept("lastName"),
         profileImageUrl |-> kept("profileImageUrl"),
         createdAt |-> createdAt,
         updatedAt |-> t]

NewUser(userData, createdAt, t) ==
    [id |-> userData.id,
     email |-> OptStrOrNull(userData, "email"),
     firstName |-> OptStrOrNull(userData, "firstName"),
     lastName |-> OptStrOrNull(userData, "lastName"),
     profileImageUrl |-> OptStrOrNull(userData, "profileImageUrl"),
     createdAt |-> createdAt,
     updatedAt |-> t]

UpsertUser(userData) ==
    \E t1 \in NewDate(now) : \E t2 \in NewDate(t1) :
        LET existing == MapHas(users, userData.id)
            t == IF existing THEN t1 ELSE t2
            user == NewUser(userData,
                            IF existing THEN MapGet(users, userData.id).createdAt
                            ELSE t1,
                            t)
        IN  /\ users' = MapSet(users, userData.id, user)
            /\ now' = t
            /\ res' = [op |-> "upsertUser", ok |-> TRUE, id |-> userData.id,
                       arg |-> userData, ret |-> user]
            /\ UNCHANGED <<positions, candidates, nextPositionId, nextCandidateId,
                           assigned, deleted>>

GetUser(id) ==
    /\ res' = [op |-> "getUser", ok |-> TRUE, id |-> id, arg |-> <<>>,
               ret |-> IF MapHas(users, id) THEN Some(MapGet(users, id)) ELSE Null]
    /\ UNCHANGED <<store, now, assigned, deleted>>

\* ---------------------------------------------------------------- start
\* The constructor without its last statement, this.nextPositionId = 2.
InitCounterLeftAtOne ==
    \E t2 \in NewDate(1) :
        /\ users = <<>>
        /\ positions = <<[key |-> 1, val |-> SeedPosition(1, t2)]>>
        /\ candidates = <<>>
        /\ nextPositionId = 1
        /\ nextCandidateId = 1
        /\ now = t2
        /\ res = [op |-> "constructor", ok |-> TRUE, id |-> 0, arg |-> <<>>,
                  ret |-> "void"]
        /\ http = [route |-> "none", admitted |-> TRUE, status |-> 0,
                   body |-> <<>>]
        /\ assigned = [positions |-> {1}, candidates |-> {}]
        /\ deleted = [positions |-> {}, candidates |-> {}]
        /\ pending = <<>>
        /\ client = [location |-> "app", mutation |-> "none", invalidated |-> {},
                     toast |-> "none", timer |-> FALSE]

Init ==
    \E t2 \in NewDate(1) :
        /\ users = <<>>
        /\ positions = <<[key |-> 1, val |-> SeedPosition(1, t2)]>>
        /\ candidates = <<>>
        /\ nextPositionId = 2
        /\ nextCandidateId = 1
        /\ now = t2
        /\ res = [op |-> "constructor", ok |-> TRUE, id |-> 0, arg |-> <<>>,
                  ret |-> "void"]
        /\ http = [route |-> "none", admitted |-> TRUE, status |-> 0,
                   body |-> <<>>]
        /\ assigned = [positions |-> {1}, candidates |-> {}]
        /\ deleted = [positions |-> {}, candidates |-> {}]
        /\ pending = <<>>
        /\ client = [location |-> "app", mutation |-> "none", invalidated |-> {},
                     toast |-> "none", timer |-> FALSE]


\* ---------------------------------------------------------------- inputs
Ids == 1..MaxAssigned

\* A store method called directly, not through a route.
Call(method) == method /\ UNCHANGED <<http, pending, client>>

LifecyclePositions ==
    {[title |-> "Backend Developer", department |-> "Engineering",
      location |-> "Remote"]}

LifecyclePositionUpdates == {[status |-> "Closed"]}

LifecycleCandidates ==
    {[name |-> <<"D", "o", "e">>, email |-> <<"j", "@", "x">>, phone |-> "1",
      positionApplied |-> "Backend Developer"]}

LifecycleCandidateUpdates == {[status |-> "Shortlisted"]}

\* ---------------------------------------------------------------- Spec
\* Creates, updates and deletes of both collections, in any order.
Next ==
    \/ CanCreate(MaxAssigned)
       /\ \E position \in LifecyclePositions : Call(CreatePosition(position))
    \/ \E id \in Ids, position \in LifecyclePositionUpdates :
          Call(UpdatePosition(id, position))
    \/ \E id \in Ids : Call(DeletePosition(id))
    \/ CanCreate(MaxAssigned)
       /\ \E candidate \in LifecycleCandidates : Call(CreateCandidate(candidate))
    \/ \E id \in Ids, candidate \in LifecycleCandidateUpdates :
          Call(UpdateCandidate(id, candidate))
    \/ \E id \in Ids : Call(DeleteCandidate(id))

Spec == Init /\ [][Next]_vars

\* ---------------------------------------------------------------- C1
\* C1: the id a create returns is strictly greater than every id assigned before
\* in the same collection, the ids of deleted records included (no id is reused).
C1_CreatedIdIsFresh ==
    [][/\ res'.op = "createPosition" =>
            \A j \in assigned.positions : res'.ret.id > j
       /\ res'.op = "createCandidate" =>
            \A j \in assigned.candidates : res'.ret.id > j]_vars

\* A position is created after an earlier position was created and deleted.
C1_Witness ==
    /\ res.op = "createPosition"
    /\ res.ret.id = 3
    /\ 2 \in deleted.positions
    /\ MapHas(positions, 3)

\* ---------------------------------------------------------------- C5
\* C5: once a delete of an id has succeeded, every later update or delete of that
\* id in that collection fails with the not-found error.
C5_DeletedStaysDeleted ==
    [][/\ (res'.op \in {"updatePosition", "deletePosition"}
           /\ res'.id \in deleted.positions) => ~res'.ok
       /\ (res'.op \in {"updateCandidate", "deleteCandidate"}
           /\ res'.id \in deleted.candidates) => ~res'.ok]_vars

\* An update of a deleted candidate fails after a later candidate was created.
C5_Witness ==
    /\ res.op = "updateCandidate"
    /\ ~res.ok
    /\ res.id = 1
    /\ 1 \in deleted.candidates
    /\ MapHas(candidates, 2)

\* ---------------------------------------------------------------- SpecMerge
\* Partial updates with no field and with several fields, one of them set to
\* null, of the seeded position and of candidates that come and go.
MergePositionUpdates ==
    {<<>>,
     [title |-> "QA Engineer", location |-> "Office", description |-> Null]}

MergeCandidateUpdates ==
    {<<>>,
     [name |-> <<"D", "O", "E">>, positionApplied |-> "QA Engineer",
      resume |-> Some("cv"), positionId |-> Some(1)]}

NextMerge ==
    \/ \E id \in Ids, position \in MergePositionUpdates :
          Call(UpdatePosition(id, position))
    \/ CanCreate(MaxAssigned)
       /\ \E candidate \in LifecycleCandidates : Call(CreateCandidate(candidate))
    \/ \E id \in Ids, candidate \in MergeCandidateUpdates :
          Call(UpdateCandidate(id, candidate))
    \/ \E id \in Ids : Call(DeleteCandidate(id))

SpecMerge == Init /\ [][NextMerge]_vars

\* ---------------------------------------------------------------- C4
\* What C4 says of one successful update: the record returned is the record now
\* stored under id; it has the fields of the record stored before; each supplied
\* field has the supplied value, each other field except updatedAt its old value;
\* updatedAt is the clock reading of the call.
MergeContract(before, after, id, partial, ret) ==
    /\ MapHas(before, id)
    /\ MapHas(after, id)
    /\ MapGet(after, id) = ret
    /\ DOMAIN ret = DOMAIN MapGet(before, id)
    /\ \A k \in DOMAIN partial : ret[k] = partial[k]
    /\ \A k \in DOMAIN ret \ (DOMAIN partial \cup {"updatedAt"}) :
          ret[k] = MapGet(before, id)[k]
    /\ ret.updatedAt = now'
    /\ ret.updatedAt >= MapGet(before, id).updatedAt

\* C4: a successful updatePosition/updateCandidate stores and returns the old
\* record with the supplied fields replaced and updatedAt refreshed; id, createdAt
\* and every other field that was not supplied keep their values.
C4_UpdateMergesPartial ==
    [][/\ (res'.op = "updatePosition" /\ res'.ok) =>
            MergeContract(positions, positions', res'.id, res'.arg, res'.ret)
       /\ (res'.op = "updateCandidate" /\ res'.ok) =>
            MergeContract(candidates, candidates', res'.id, res'.arg, res'.ret)]_vars

\* A several-field update of the second of two candidates, after the clock has
\* moved on: the supplied fields are replaced, email, status and createdAt are
\* kept, and the first candidate is as it was created.
C4_Witness ==
    /\ res.op = "updateCandidate"
    /\ res.ok
    /\ res.id = 2
    /\ "name" \in DOMAIN res.arg
    /\ res.ret.name = <<"D", "O", "E">>
    /\ res.ret.email = <<"j", "@", "x">>
    /\ res.ret.status = "New"
    /\ res.ret.positionId = Some(1)
    /\ res.ret.updatedAt > res.ret.createdAt
    /\ MapHas(candidates, 1)
    /\ MapGet(candidates, 1).name = <<"D", "o", "e">>

\* ---------------------------------------------------------------- SpecFilter
\* Candidates that differ in name, email, position applied for and status, and
\* listings under every combination of filters: absent, empty, one, all three.
FilterCandidates ==
    {[name |-> <<"D", "o", "e">>, email |-> <<"j", "@", "x">>, phone |-> "1",
      positionApplied |-> "Backend Developer"],
     [name |-> <<"A", "l">>, email |-> <<"d", "o", "e", "@", "y">>, phone |-> "2",
      positionApplied |-> "Backend Developer", status |-> "In Review"],
     [name |-> <<"S", "m", "i", "t", "h">>, email |-> <<"s", "@", "y">>,
      phone |-> "3", positionApplied |-> "QA Engineer",
      status |-> "Shortlisted"]}

FilterCandidateUpdates == {[status |-> "In Review"]}

FilterArgs ==
    {Null,
     Some(<<>>),
     Some([position |-> "QA Engineer"]),
     Some([status |-> "In Review"]),
     Some([search |-> <<"D", "O", "E">>]),
     Some([search |-> <<"@", "y">>]),
     Some([position |-> "Backend Developer", status |-> "In Review",
           search |-> <<"o">>]),
     Some([position |-> "", status |-> "Shortlisted", search |-> <<>>]),
     Some([status |-> ""])}

NextFilter ==
    \/ CanCreate(MaxAssigned)
       /\ \E candidate \in FilterCandidates : Call(CreateCandidate(candidate))
    \/ \E id \in Ids, candidate \in FilterCandidateUpdates :
          Call(UpdateCandidate(id, candidate))
    \/ \E id \in Ids : Call(DeleteCandidate(id))
    \/ \E filtersArg \in FilterArgs : Call(GetCandidates(filtersArg))

SpecFilter == Init /\ [][NextFilter]_vars

\* ---------------------------------------------------------------- C6, C7
\* The filters object of a getCandidates call; none when it had no argument.
FiltersOf(filtersArg) == IF filtersArg = Null THEN <<>> ELSE filtersArg[1]

StoredCandidates == {candidates[i].val : i \in DOMAIN candidates}

Listed(list) == {list[i] : i \in DOMAIN list}

\* Two characters that are the same letter in either case, or the same character.
SameLetter(a, b) ==
    \/ a = b
    \/ \E i \in DOMAIN UpperCase :
          {a, b} = {UpperCase[i], LowerCase[i]}

\* sub occurs in str at some offset, letters compared without regard to case.
ContainsIgnoringCase(str, sub) ==
    \E offset \in 0..(Len(str) - Len(sub)) :
        \A k \in 1..Len(sub) : SameLetter(str[offset + k], sub[k])

SearchKeeps(c, search) ==
    \/ ContainsIgnoringCase(c.name, search)
    \/ ContainsIgnoringCase(c.email, search)

\* A candidate satisfies every filter among those that `supplied` selects.
Satisfies(c, filters, supplied) ==
    /\ "position" \in supplied => c.positionApplied = filters.position
    /\ "status" \in supplied => c.status = filters.status
    /\ "search" \in supplied => SearchKeeps(c, filters.search)

ListsExactly(list, expected) ==
    /\ Listed(list) = expected
    /\ Len(list) = Cardinality(expected)

NonEmptyFilters(filters) ==
    {k \in DOMAIN filters : IF k = "search" THEN filters[k] # <<>>
                            ELSE filters[k] # ""}

\* C6 as stated: getCandidates returns exactly the stored candidates that satisfy
\* every supplied filter at once; a filter that is not supplied does not
\* constrain, and with no filters every stored candidate is returned.
C6_Original_EverySuppliedFilter ==
    res.op = "getCandidates" =>
        ListsExactly(res.ret,
                     {c \in StoredCandidates :
                         Satisfies(c, FiltersOf(res.arg),
                                   DOMAIN FiltersOf(res.arg))})

\* C6 amended: getCandidates returns exactly the stored candidates that satisfy
\* every filter supplied as a non-empty string, at once; a filter that is not
\* supplied or is the empty string does not constrain, and with no filters every
\* stored candidate is returned.
C6_EveryNonEmptyFilter ==
    res.op = "getCandidates" =>
        ListsExactly(res.ret,
                     {c \in StoredCandidates :
                         Satisfies(c, FiltersOf(res.arg),
                                   NonEmptyFilters(FiltersOf(res.arg)))})

\* All three filters are supplied; of two stored candidates that both have the
\* position and match the search, only the one with the status is listed.
C6_Witness ==
    /\ res.op = "getCandidates"
    /\ res.arg = Some([position |-> "Backend Developer", status |-> "In Review",
                       search |-> <<"o">>])
    /\ MapSize(candidates) = 2
    /\ \A c \in StoredCandidates :
          /\ c.positionApplied = "Backend Developer"
          /\ SearchKeeps(c, <<"o">>)
    /\ Len(res.ret) = 1
    /\ res.ret[1].status = "In Review"

\* C7: the search filter keeps a candidate exactly when the search string is,
\* without regard to case, a substring of the candidate's name or of its email,
\* and the candidate also passes the position and status filters.
C7_SearchNameOrEmail ==
    (res.op = "getCandidates" /\ "search" \in DOMAIN FiltersOf(res.arg)) =>
        \A c \in StoredCandidates :
            c \in Listed(res.ret) <=>
                /\ SearchKeeps(c, FiltersOf(res.arg).search)
                /\ Satisfies(c, FiltersOf(res.arg),
                             NonEmptyFilters(FiltersOf(res.arg)) \ {"search"})

\* An upper-case search lists the candidate whose lower-case email contains it,
\* though the name does not, and leaves out the candidate with neither.
C7_Witness ==
    /\ res.op = "getCandidates"
    /\ res.arg = Some([search |-> <<"D", "O", "E">>])
    /\ MapSize(candidates) = 2
    /\ Len(res.ret) = 1
    /\ res.ret[1].name = <<"A", "l">>
    /\ res.ret[1].email = <<"d", "o", "e", "@", "y">>

\* ---------------------------------------------------------------- SpecList
ListFilterArgs == {Null, Some([status |-> "New"])}

\* Records of both collections created, updated and deleted as the clock
\* advances or stands still, and listed.
NextList ==
    \/ CanCreate(MaxAssigned)
       /\ \E position \in LifecyclePositions : Call(CreatePosition(position))
    \/ \E id \in Ids : Call(DeletePosition(id))
    \/ Call(GetPositions)
    \/ CanCreate(MaxAssigned)
       /\ \E candidate \in LifecycleCandidates : Call(CreateCandidate(candidate))
    \/ \E id \in Ids, candidate \in LifecycleCandidateUpdates :
          Call(UpdateCandidate(id, candidate))
    \/ \E id \in Ids : Call(DeleteCandidate(id))
    \/ \E filtersArg \in ListFilterArgs : Call(GetCandidates(filtersArg))

SpecList == Init /\ [][NextList]_vars

\* ---------------------------------------------------------------- C8
NewestFirst(list) ==
    \A i, j \in DOMAIN list : i < j => list[i].createdAt >= list[j].createdAt

StoredPositions == {positions[i].val : i \in DOMAIN positions}

\* C8: getPositions and getCandidates return their records newest first: of any
\* two records in the result the earlier one was not created before the later
\* one; getPositions, and getCandidates without filters, return every record.
C8_ListedNewestFirst ==
    /\ res.op = "getPositions" =>
          /\ NewestFirst(res.ret)
          /\ ListsExactly(res.ret, StoredPositions)
    /\ res.op = "getCandidates" =>
          /\ NewestFirst(res.ret)
          /\ res.arg = Null => ListsExactly(res.ret, StoredCandidates)

\* Three positions created at three successive clock readings are listed
\* [t3, t2, t1], the reverse of the order they were inserted in.
C8_Witness ==
    /\ res.op = "getPositions"
    /\ Len(res.ret) = 3
    /\ <<res.ret[1].createdAt, res.ret[2].createdAt, res.ret[3].createdAt>>
          = <<3, 2, 1>>
    /\ <<res.ret[1].id, res.ret[2].id, res.ret[3].id>> = <<3, 2, 1>>

\* ---------------------------------------------------------------- SpecStats
StatsCandidates ==
    {[name |-> <<"D", "o", "e">>, email |-> <<"j", "@", "x">>, phone |-> "1",
      positionApplied |-> "Backend Developer"],
     [name |-> <<"D", "o", "e">>, email |-> <<"j", "@", "x">>, phone |-> "1",
      positionApplied |-> "Backend Developer", status |-> "Shortlisted"]}

StatsCandidateUpdates == {[status |-> "In Review"], [status |-> "Rejected"]}

\* Positions created and deleted, candidates created as "New" or "Shortlisted",
\* moved to "In Review" or "Rejected" and deleted, and the statistics read.
NextStats ==
    \/ CanCreate(MaxAssigned)
       /\ \E position \in LifecyclePositions : Call(CreatePosition(position))
    \/ \E id \in Ids : Call(DeletePosition(id))
    \/ CanCreate(MaxAssigned)
       /\ \E candidate \in StatsCandidates : Call(CreateCandidate(candidate))
    \/ \E id \in Ids, candidate \in StatsCandidateUpdates :
          Call(UpdateCandidate(id, candidate))
    \/ \E id \in Ids : Call(DeleteCandidate(id))
    \/ Call(GetDashboardStats)

SpecStats == Init /\ [][NextStats]_vars

\* ---------------------------------------------------------------- C9
\* C9: getDashboardStats returns the number of stored positions, the number of
\* stored candidates, and the numbers of stored candidates whose status is
\* "In Review" and "Shortlisted", as the store holds them when it is called.
C9_StatsCountStore ==
    res.op = "getDashboardStats" =>
        /\ res.ret.totalPositions = Cardinality(MapKeys(positions))
        /\ res.ret.totalCandidates = Cardinality(MapKeys(candidates))
        /\ res.ret.inReview =
              Cardinality({k \in MapKeys(candidates) :
                              MapGet(candidates, k).status = "In Review"})
        /\ res.ret.shortlisted =
              Cardinality({k \in MapKeys(candidates) :
                              MapGet(candidates, k).status = "Shortlisted"})

\* The statistics are read after the seeded position and a candidate have been
\* deleted and the remaining candidate has been moved to "In Review".
C9_Witness ==
    /\ res.op = "getDashboardStats"
    /\ res.ret = [totalPositions |-> 0, totalCandidates |-> 1, inReview |-> 1,
                  shortlisted |-> 0]
    /\ deleted.positions = {1}
    /\ deleted.candidates # {}
    /\ \E c \in StoredCandidates :
          c.updatedAt > c.createdAt /\ c.name = <<"D", "o", "e">>

\* ---------------------------------------------------------------- SpecUsers
UserDatas ==
    {[id |-> "u1", email |-> Some("a@x"), firstName |-> Some("Ann"),
      lastName |-> Some("Lee"), profileImageUrl |-> Some("img")],
     [id |-> "u1", email |-> Some("b@x"), firstName |-> Null],
     [id |-> "u1", email |-> Some(""), lastName |-> Some("Ray")],
     [id |-> "u2", email |-> Some("c@x")]}

UserIds == {"u1", "u2", "u3"}

NextUsers ==
    \/ \E userData \in UserDatas : Call(UpsertUser(userData))
    \/ \E id \in UserIds : Call(GetUser(id))

SpecUsers == Init /\ [][NextUsers]_vars

\* ---------------------------------------------------------------- C10
ProfileFields == {"email", "firstName", "lastName", "profileImageUrl"}

\* What C10 says of the timestamps of one upsertUser call and of where its
\* result goes.
UpsertTimestamps(userData, user) ==
    /\ MapHas(users', userData.id)
    /\ MapGet(users', userData.id) = user
    /\ user.id = userData.id
    /\ IF MapHas(users, userData.id)
       THEN /\ user.createdAt = MapGet(users, userData.id).createdAt
            /\ user.updatedAt >= MapGet(users, userData.id).updatedAt
            /\ user.updatedAt = now'
       ELSE /\ now <= user.createdAt
            /\ user.createdAt <= user.updatedAt
            /\ user.updatedAt = now'

\* C10 as stated: a second upsertUser of an identity returns the createdAt of
\* the first, an updatedAt that is later or equal, and the field values the
\* second call supplied; for a new identity both timestamps are the current time.
C10_Original_SuppliedValuesStored ==
    [][res'.op = "upsertUser" =>
          /\ UpsertTimestamps(res'.arg, res'.ret)
          /\ \A k \in DOMAIN res'.arg \cap ProfileFields :
                res'.ret[k] = res'.arg[k]]_vars

\* C10 amended: as stated, except that a field the second call supplies as the
\* empty string is stored as null.
C10_UpsertKeepsCreatedAt ==
    [][res'.op = "upsertUser" =>
          /\ UpsertTimestamps(res'.arg, res'.ret)
          /\ \A k \in DOMAIN res'.arg \cap ProfileFields :
                res'.ret[k] = IF res'.arg[k] = Some("") THEN Null
                              ELSE res'.arg[k]]_vars

\* A later upsertUser of an identity, two ticks after it was created, returns
\* the old createdAt, the new updatedAt and the second call's email.
C10_Witness ==
    /\ res.op = "upsertUser"
    /\ res.id = "u1"
    /\ res.ret.createdAt = 1
    /\ res.ret.updatedAt = 3
    /\ res.arg.email = Some("b@x")
    /\ res.ret.email = Some("b@x")
    /\ res.ret.firstName = Null

\* ---------------------------------------------------------------- JSON, zod
\* A JSON value of a request body.
JStr(s) == [t |-> "string", s |-> s]
JNum(n) == [t |-> "number", n |-> n]
JNull == [t |-> "null"]

\* The columns behind the insert schemas: createInsertSchema makes a notNull
\* column without default a required key, a notNull column with a default an
\* optional key, a nullable column an optional key that also accepts null.
Column(type, notNull, hasDefault) ==
    [type |-> type, notNull |-> notNull, hasDefault |-> hasDefault]

InsertPositionSchema ==
    [title |-> Column("string", TRUE, FALSE),
     department |-> Column("string", TRUE, FALSE),
     description |-> Column("string", FALSE, FALSE),
     location |-> Column("string", TRUE, FALSE),
     status |-> Column("string", TRUE, TRUE)]

InsertCandidateSchema ==
    [name |-> Column("string", TRUE, FALSE),
     email |-> Column("string", TRUE, FALSE),
     phone |-> Column("string", TRUE, FALSE),
     resume |-> Column("string", FALSE, FALSE),
     positionId |-> Column("number", FALSE, FALSE),
     positionApplied |-> Column("string", TRUE, FALSE),
     status |-> Column("string", TRUE, TRUE)]

\* schema.partial(): every key optional.
PartialSchema(schema) ==
    [k \in DOMAIN schema |-> [schema[k] EXCEPT !.hasDefault = TRUE]]

ZodFieldOk(column, body, key) ==
    IF key \in DOMAIN body
    THEN \/ body[key].t = column.type
         \/ body[key].t = "null" /\ ~column.notNull
    ELSE ~column.notNull \/ column.hasDefault

JsonValue(value) ==
    IF value.t = "null" THEN Null
    ELSE IF value.t = "number" THEN value.n ELSE value.s

\* The parsed value of a key that fits its column: the string or number itself
\* for a notNull column, an option for a nullable one.
ZodFieldValue(column, value) ==
    IF column.notNull \/ value.t = "null" THEN JsonValue(value)
    ELSE Some(JsonValue(value))

\* The order in which the tables declare their columns; z.object checks its keys
\* in this order.
ColumnOrder ==
    <<"title", "department", "description", "location",
      "name", "email", "phone", "resume", "positionId", "positionApplied",
      "status">>

\* The issue zod raises for a key that does not fit its column: invalid_type,
\* with what was expected and what was received (undefined for a missing key).
ZodIssue(column, body, key) ==
    [code |-> "invalid_type",
     expected |-> column.type,
     received |-> IF key \in DOMAIN body THEN body[key].t ELSE "undefined",
     path |-> <<key>>]

\* ZodError.errors: one issue for every key that does not fit, in key order.
ZodErrors(schema, body) ==
    LET bad == SelectSeq(ColumnOrder,
                         LAMBDA k : /\ k \in DOMAIN schema
                                    /\ ~ZodFieldOk(schema[k], body, k))
    IN  [i \in DOMAIN bad |-> ZodIssue(schema[bad[i]], body, bad[i])]

\* z.object in passthrough mode: the keys the schema does not know are kept.
ZodParsePassthrough(schema, body) ==
    [success |-> ZodErrors(schema, body) = <<>>,
     errors |-> ZodErrors(schema, body),
     data |-> [k \in DOMAIN body |->
                  IF k \in DOMAIN schema THEN ZodFieldValue(schema[k], body[k])
                  ELSE JsonValue(body[k])]]

\* schema.parse(body): a ZodError unless every key fits; the data holds the
\* schema's keys that the body has, and drops every other key.
ZodParse(schema, body) ==
    [success |-> ZodErrors(schema, body) = <<>>,
     errors |-> ZodErrors(schema, body),
     data |-> [k \in DOMAIN schema \cap DOMAIN body |->
                  ZodFieldValue(schema[k], body[k])]]

\* ---------------------------------------------------------------- parseInt
Digits == <<"0", "1", "2", "3", "4", "5", "6", "7", "8", "9">>

IsDigit(c) == \E i \in DOMAIN Digits : Digits[i] = c

DigitValue(c) == (CHOOSE i \in DOMAIN Digits : Digits[i] = c) - 1

\* NaN: no key of a Map equals it. Request parameters here carry no sign, so no
\* parameter parses to this number.
NaN == 0 - 1

RECURSIVE ParseDigits(_, _, _)
ParseDigits(str, i, acc) ==
    IF i > Len(str) \/ ~IsDigit(str[i]) THEN acc
    ELSE ParseDigits(str, i + 1, 10 * acc + DigitValue(str[i]))

\* parseInt(str): the number its leading digits spell, NaN when it has none.
ParseInt(str) ==
    IF Len(str) = 0 \/ ~IsDigit(str[1]) THEN NaN ELSE ParseDigits(str, 1, 0)

\* ---------------------------------------------------------------- the gate
\* isAuthenticated (server/replitAuth.ts): admits the request of a logged-in
\* session and calls the handler; otherwise answers 401 with a JSON message and
\* does not call the handler.
IsAuthenticated(req) == req.admitted

NoStoreCall ==
    /\ res' = [op |-> "none", ok |-> TRUE, id |-> 0, arg |-> <<>>, ret |-> "void"]
    /\ UNCHANGED <<store, now, assigned, deleted>>

\* res.status(status).json(body)
Send(route, admitted, status, body) ==
    http' = [route |-> route, admitted |-> admitted, status |-> status,
             body |-> body]

\* The response of a handler that ran from its request to its response with no
\* other handler in between.
Respond(route, req, status, body) ==
    /\ Send(route, req.admitted, status, body)
    /\ UNCHANGED <<pending, client>>

Unauthorized(route, req) ==
    /\ NoStoreCall
    /\ Respond(route, req, 401, [message |-> "Unauthorized"])

Message(text) == [message |-> text]

\* The answer to a ZodError without its error list.
InvalidDataWithoutErrors(route, req, errors) ==
    /\ NoStoreCall
    /\ Respond(route, req, 400, Message("Invalid data"))

\* The answer to a ZodError: { message: "Invalid data", errors: error.errors }.
InvalidData(route, req, errors) ==
    /\ NoStoreCall
    /\ Respond(route, req, 400,
               Spread(Message("Invalid data"), [errors |-> errors]))

\* ---------------------------------------------------------------- routes
\* A request is [admitted, sub, params, query, body]: whether the session is
\* logged in, the user id of its claims, the :id parameter, the query string's
\* parameters and the JSON body.
AuthUserRoute(req) ==
    LET route == "GET /api/auth/user" IN
    IF ~IsAuthenticated(req) THEN Unauthorized(route, req)
    ELSE /\ GetUser(req.sub)
         /\ Respond(route, req, 200, res'.ret)

DashboardStatsRoute(req) ==
    LET route == "GET /api/dashboard/stats" IN
    IF ~IsAuthenticated(req) THEN Unauthorized(route, req)
    ELSE /\ GetDashboardStats
         /\ Respond(route, req, 200, res'.ret)

GetPositionsRoute(req) ==
    LET route == "GET /api/positions" IN
    IF ~IsAuthenticated(req) THEN Unauthorized(route, req)
    ELSE /\ GetPositions
         /\ Respond(route, req, 200, res'.ret)

PostPositionsRoute(req) ==
    LET route == "POST /api/positions"
        validatedData == ZodParse(InsertPositionSchema, req.body)
    IN  IF ~IsAuthenticated(req) THEN Unauthorized(route, req)
        ELSE IF ~validatedData.success THEN InvalidData(route, req, validatedData.errors)
        ELSE /\ CreatePosition(validatedData.data)
             /\ Respond(route, req, 201, res'.ret)

PutPositionRoute(req) ==
    LET route == "PUT /api/positions/:id"
        id == ParseInt(req.params.id)
        validatedData == ZodParse(PartialSchema(InsertPositionSchema), req.body)
    IN  IF ~IsAuthenticated(req) THEN Unauthorized(route, req)
        ELSE IF ~validatedData.success THEN InvalidData(route, req, validatedData.errors)
        ELSE /\ UpdatePosition(id, validatedData.data)
             /\ IF res'.ok THEN Respond(route, req, 200, res'.ret)
                ELSE Respond(route, req, 500, Message("Failed to update position"))

\* The route registered without the isAuthenticated middleware.
DeletePositionRouteUngated(req) ==
    LET route == "DELETE /api/positions/:id"
        id == ParseInt(req.params.id)
    IN  /\ DeletePosition(id)
        /\ IF res'.ok THEN Respond(route, req, 204, <<>>)
           ELSE Respond(route, req, 500, Message("Failed to delete position"))

DeletePositionRoute(req) ==
    LET route == "DELETE /api/positions/:id"
        id == ParseInt(req.params.id)
    IN  IF ~IsAuthenticated(req) THEN Unauthorized(route, req)
        ELSE /\ DeletePosition(id)
             /\ IF res'.ok THEN Respond(route, req, 204, <<>>)
                ELSE Respond(route, req, 500, Message("Failed to delete position"))

GetCandidatesRoute(req) ==
    LET route == "GET /api/candidates"
        filters == [k \in DOMAIN req.query \cap {"position", "status", "search"}
                       |-> req.query[k]]
    IN  IF ~IsAuthenticated(req) THEN Unauthorized(route, req)
        ELSE /\ GetCandidates(Some(filters))
             /\ Respond(route, req, 200, res'.ret)

PostCandidatesRoute(req) ==
    LET route == "POST /api/candidates"
        validatedData == ZodParse(InsertCandidateSchema, req.body)
    IN  IF ~IsAuthenticated(req) THEN Unauthorized(route, req)
        ELSE IF ~validatedData.success THEN InvalidData(route, req, validatedData.errors)
        ELSE /\ CreateCandidate(validatedData.data)
             /\ Respond(route, req, 201, res'.ret)

PutCandidateRoute(req) ==
    LET route == "PUT /api/candidates/:id"
        id == ParseInt(req.params.id)
        validatedData == ZodParse(PartialSchema(InsertCandidateSchema), req.body)
    IN  IF ~IsAuthenticated(req) THEN Unauthorized(route, req)
        ELSE IF ~validatedData.success THEN InvalidData(route, req, validatedData.errors)
        ELSE /\ UpdateCandidate(id, validatedData.data)
             /\ IF res'.ok THEN Respond(route, req, 200, res'.ret)
                ELSE Respond(route, req, 500, Message("Failed to update candidate"))

DeleteCandidateRoute(req) ==
    LET route == "DELETE /api/candidates/:id"
        id == ParseInt(req.params.id)
    IN  IF ~IsAuthenticated(req) THEN Unauthorized(route, req)
        ELSE /\ DeleteCandidate(id)
             /\ IF res'.ok THEN Respond(route, req, 204, <<>>)
                ELSE Respond(route, req, 500, Message("Failed to delete candidate"))

\* ---------------------------------------------------------------- SpecHttp
Request(admitted, params, query, body) ==
    [admitted |-> admitted, sub |-> "u1", params |-> params, query |-> query,
     body |-> body]

IdParams ==
    {[id |-> <<"1">>], [id |-> <<"2", "x">>], [id |-> <<"a", "b", "c">>]}

PositionBodies ==
    {[title |-> JStr("Backend Developer"), department |-> JStr("Engineering"),
      location |-> JStr("Remote")],
     [department |-> JStr("Engineering"), location |-> JStr("Remote")]}

PositionUpdateBodies ==
    {[status |-> JStr("Closed")],
     [title |-> JNum(7)]}

CandidateBodies ==
    {[name |-> JStr(<<"D", "o", "e">>), email |-> JStr(<<"j", "@", "x">>),
      phone |-> JStr("1"), positionApplied |-> JStr("Backend Developer")],
     [name |-> JStr(<<"D", "o", "e">>), email |-> JStr(<<"j", "@", "x">>),
      phone |-> JStr("1"), positionApplied |-> JStr("Backend Developer"),
      status |-> JNull]}

CandidateUpdateBodies ==
    {[status |-> JStr("Shortlisted")],
     [positionId |-> JStr("one")]}

Queries == {<<>>, [status |-> "Shortlisted"], [search |-> <<"D", "O", "E">>]}

\* Requests to every route, from sessions that are logged in and that are not.
\* The responses multiply the states, so one record fewer is created here than
\* in the specifications of direct store calls.
NextHttp ==
    \/ \E a \in BOOLEAN : AuthUserRoute(Request(a, <<>>, <<>>, <<>>))
    \/ \E a \in BOOLEAN : DashboardStatsRoute(Request(a, <<>>, <<>>, <<>>))
    \/ \E a \in BOOLEAN : GetPositionsRoute(Request(a, <<>>, <<>>, <<>>))
    \/ CanCreate(MaxAssigned - 1)
       /\ \E a \in BOOLEAN, body \in PositionBodies :
             PostPositionsRoute(Request(a, <<>>, <<>>, body))
    \/ \E a \in BOOLEAN, params \in IdParams, body \in PositionUpdateBodies :
          PutPositionRoute(Request(a, params, <<>>, body))
    \/ \E a \in BOOLEAN, params \in IdParams :
          DeletePositionRoute(Request(a, params, <<>>, <<>>))
    \/ \E a \in BOOLEAN, query \in Queries :
          GetCandidatesRoute(Request(a, <<>>, query, <<>>))
    \/ CanCreate(MaxAssigned - 1)
       /\ \E a \in BOOLEAN, body \in CandidateBodies :
             PostCandidatesRoute(Request(a, <<>>, <<>>, body))
    \/ \E a \in BOOLEAN, params \in IdParams, body \in CandidateUpdateBodies :
          PutCandidateRoute(Request(a, params, <<>>, body))
    \/ \E a \in BOOLEAN, params \in IdParams :
          DeleteCandidateRoute(Request(a, params, <<>>, <<>>))

SpecHttp == Init /\ [][NextHttp]_vars

\* ---------------------------------------------------------------- C2
ByIdRoutes ==
    {"PUT /api/positions/:id", "DELETE /api/positions/:id",
     "PUT /api/candidates/:id", "DELETE /api/candidates/:id"}

\* The request reached the store's update or delete, which found no record
\* under the id.
IdWasAbsent ==
    /\ res.op \in {"updatePosition", "deletePosition", "updateCandidate",
                   "deleteCandidate"}
    /\ ~res.ok

\* C2: an admitted PUT or DELETE to /positions/:id or /candidates/:id whose id is
\* absent from the store is answered with status 404.
C2_AbsentIdAnswered404 ==
    (http.route \in ByIdRoutes /\ http.admitted /\ IdWasAbsent) =>
        http.status = 404

\* ---------------------------------------------------------------- C3
\* C3: on every route, a request the authentication gate rejects is answered 401
\* with a JSON message, no store method is called for it, and the collections
\* and the id counters are left as they were.
C3_RejectedLeavesStore ==
    [][~http'.admitted =>
          /\ http'.status = 401
          /\ "message" \in DOMAIN http'.body
          /\ res'.op = "none"
          /\ UNCHANGED <<users, positions, candidates, nextPositionId,
                         nextCandidateId>>]_vars

\* A DELETE of a stored position from a session that is not logged in, after a
\* position was created: answered 401, and both positions are still stored.
C3_Witness ==
    /\ http.route = "DELETE /api/positions/:id"
    /\ ~http.admitted
    /\ http.status = 401
    /\ res.op = "none"
    /\ nextPositionId = 3
    /\ MapKeys(positions) = {1, 2}

\* ---------------------------------------------------------------- SpecSchema
\* Bodies that fit the insert schemas, that lack required keys, that carry a
\* status outside the four the application shows, and that carry an id key.
SchemaPositionBodies ==
    {[title |-> JStr("Backend Developer"), department |-> JStr("Engineering"),
      location |-> JStr("Remote")],
     [department |-> JStr("Engineering"), location |-> JStr("Remote")]}

SchemaPositionUpdateBodies ==
    {[id |-> JNum(3), title |-> JStr("QA Engineer")]}

SchemaCandidateBodies ==
    {[name |-> JStr(<<"D", "o", "e">>), email |-> JStr(<<"j", "@", "x">>),
      phone |-> JStr("1"), positionApplied |-> JStr("Backend Developer")],
     [name |-> JStr(<<"D", "o", "e">>), email |-> JStr(<<"j", "@", "x">>),
      phone |-> JStr("1"), positionApplied |-> JStr("Backend Developer"),
      status |-> JStr("Hired")],
     [email |-> JStr(<<"j", "@", "x">>),
      positionApplied |-> JStr("Backend Developer")]}

SchemaCandidateUpdateBodies ==
    {[id |-> JNum(3), status |-> JStr("In Review")]}

\* Admitted POST and PUT requests to both collections.
NextSchema ==
    \/ CanCreate(MaxAssigned)
       /\ \E body \in SchemaPositionBodies :
             PostPositionsRoute(Request(TRUE, <<>>, <<>>, body))
    \/ \E params \in IdParams, body \in SchemaPositionUpdateBodies :
          PutPositionRoute(Request(TRUE, params, <<>>, body))
    \/ CanCreate(MaxAssigned)
       /\ \E body \in SchemaCandidateBodies :
             PostCandidatesRoute(Request(TRUE, <<>>, <<>>, body))
    \/ \E params \in IdParams, body \in SchemaCandidateUpdateBodies :
          PutCandidateRoute(Request(TRUE, params, <<>>, body))

SpecSchema == Init /\ [][NextSchema]_vars

\* ---------------------------------------------------------------- C11
KnownStatuses == {"New", "In Review", "Shortlisted", "Rejected"}

\* C11: every stored candidate's status is one of "New", "In Review",
\* "Shortlisted", "Rejected", whatever admitted POST and PUT requests with valid
\* bodies have been made.
C11_StatusIsKnown ==
    \A c \in StoredCandidates : c.status \in KnownStatuses

\* ---------------------------------------------------------------- C12
RequiredKeys(schema) ==
    {k \in DOMAIN schema : schema[k].notNull /\ ~schema[k].hasDefault}

\* The response is 400 with an error list that names every key in missing, and
\* no record is created: the collection and its id counter are as before.
RejectedNaming(missing) ==
    /\ http'.status = 400
    /\ "errors" \in DOMAIN http'.body
    /\ \A k \in missing :
          \E i \in DOMAIN http'.body.errors : http'.body.errors[i].path = <<k>>
    /\ UNCHANGED <<positions, candidates, nextPositionId, nextCandidateId>>

\* C12: an admitted POST /positions or POST /candidates whose body lacks a
\* required field is answered 400 with an error list naming the field, and
\* creates no record.
C12_MissingFieldRejected ==
    [][/\ \A body \in SchemaPositionBodies :
             LET missing == RequiredKeys(InsertPositionSchema) \ DOMAIN body IN
             (missing # {}
              /\ PostPositionsRoute(Request(TRUE, <<>>, <<>>, body)))
                 => RejectedNaming(missing)
       /\ \A body \in SchemaCandidateBodies :
             LET missing == RequiredKeys(InsertCandidateSchema) \ DOMAIN body IN
             (missing # {}
              /\ PostCandidatesRoute(Request(TRUE, <<>>, <<>>, body)))
                 => RejectedNaming(missing)]_vars

\* A POST /candidates without name and phone, made after a candidate was
\* created: 400, the two keys named in order, and still one candidate.
C12_Witness ==
    /\ http.route = "POST /api/candidates"
    /\ http.admitted
    /\ http.status = 400
    /\ Len(http.body.errors) = 2
    /\ http.body.errors[1].path = <<"name">>
    /\ http.body.errors[2].path = <<"phone">>
    /\ http.body.errors[1].received = "undefined"
    /\ MapKeys(candidates) = {1}
    /\ nextCandidateId = 2

\* ---------------------------------------------------------------- C19
KeysAreIds(m) ==
    /\ Len(m) = Cardinality(MapKeys(m))
    /\ \A i \in DOMAIN m : m[i].val.id = m[i].key

\* C19: a record stored under key k has id k, no two records of a collection
\* share a key, and so no PUT request changes the id of a record.
C19_IdIsKey ==
    /\ KeysAreIds(positions)
    /\ KeysAreIds(candidates)

\* A PUT /positions/1 whose body carried id 3 was answered 200: the title was
\* replaced and the record under key 1 still has id 1.
C19_Witness ==
    /\ http.route = "PUT /api/positions/:id"
    /\ http.status = 200
    /\ res.id = 1
    /\ http.body.title = "QA Engineer"
    /\ http.body.id = 1
    /\ MapGet(positions, 1).id = 1

\* ---------------------------------------------------------------- C13
\* What C13 says of the record a create returns: its timestamps are readings of
\* the clock made during the call, and it is the record stored under its id.
CreatedContract(after, ret) ==
    /\ now <= ret.createdAt
    /\ ret.createdAt <= ret.updatedAt
    /\ ret.updatedAt = now'
    /\ MapHas(after, ret.id)
    /\ MapGet(after, ret.id) = ret

\* C13: a create that omits status stores and returns a record with the default
\* status ("Active" for a position, "New" for a candidate), with null for each
\* omitted optional field, with both timestamps read from the clock during the
\* call, and the record returned is the one stored under the assigned id.
C13_CreateFillsDefaults ==
    [][/\ (res'.op = "createPosition" /\ "status" \notin DOMAIN res'.arg) =>
             /\ res'.ret.status = "Active"
             /\ "description" \notin DOMAIN res'.arg =>
                    res'.ret.description = Null
             /\ res'.ret.id = nextPositionId
             /\ CreatedContract(positions', res'.ret)
       /\ (res'.op = "createCandidate" /\ "status" \notin DOMAIN res'.arg) =>
             /\ res'.ret.status = "New"
             /\ "resume" \notin DOMAIN res'.arg => res'.ret.resume = Null
             /\ "positionId" \notin DOMAIN res'.arg =>
                    res'.ret.positionId = Null
             /\ res'.ret.id = nextCandidateId
             /\ CreatedContract(candidates', res'.ret)]_vars

\* A second candidate created without status, resume and positionId, while the
\* clock moved between the two readings of the call.
C13_Witness ==
    /\ res.op = "createCandidate"
    /\ DOMAIN res.arg = {"name", "email", "phone", "positionApplied"}
    /\ res.ret.id = 2
    /\ res.ret.status = "New"
    /\ res.ret.resume = Null
    /\ res.ret.positionId = Null
    /\ res.ret.createdAt < res.ret.updatedAt
    /\ MapGet(candidates, 2) = res.ret

\* ---------------------------------------------------------------- C14
\* C14: a request answered with a status outside 200..299 leaves the three
\* collections and the two id counters as they were before it.
C14_FailureChangesNothing ==
    [][http'.status \notin 200..299 =>
          UNCHANGED <<users, positions, candidates, nextPositionId,
                      nextCandidateId>>]_vars

\* An admitted PUT of a position id that is not stored, made after a position
\* was created, failed in the store: the two positions and the counter remain.
C14_Witness ==
    /\ http.route = "PUT /api/positions/:id"
    /\ http.admitted
    /\ http.status >= 400
    /\ res.op = "updatePosition"
    /\ ~res.ok
    /\ MapKeys(positions) = {1, 2}
    /\ nextPositionId = 3
    /\ MapGet(positions, 1).title = "Senior Frontend Developer"

\* ---------------------------------------------------------------- C15
\* The first create of a collection: no create has assigned an id before it (the
\* id of the position the constructor stores is not assigned by a create).
FirstCreatePosition == res'.op = "createPosition" /\ assigned.positions = {1}

FirstCreateCandidate == res'.op = "createCandidate" /\ assigned.candidates = {}

\* C15 as stated: in a freshly constructed store the first createPosition
\* returns id 1 and the first createCandidate returns id 1.
C15_Original_FirstIdsAreOne ==
    [][/\ FirstCreatePosition => res'.ret.id = 1
       /\ FirstCreateCandidate => res'.ret.id = 1]_vars

\* C15 amended: the first createCandidate returns id 1; the first createPosition
\* returns id 2, because the constructor stores a sample position under id 1 and
\* sets the position counter to 2, and it leaves the record under id 1 alone.
C15_FirstIdsAfterSeed ==
    [][/\ FirstCreatePosition =>
             /\ res'.ret.id = 2
             /\ MapHas(positions, 1) =>
                    /\ MapHas(positions', 1)
                    /\ MapGet(positions', 1) = MapGet(positions, 1)
       /\ FirstCreateCandidate => res'.ret.id = 1]_vars

\* The first position and the first candidate have been created next to the
\* sample position.
C15_Witness ==
    /\ res.op = "createPosition"
    /\ res.ret.id = 2
    /\ assigned = [positions |-> {1, 2}, candidates |-> {1}]
    /\ MapGet(positions, 1).title = "Senior Frontend Developer"
    /\ MapGet(positions, 2).title = "Backend Developer"
    /\ MapGet(candidates, 1).id = 1

\* ---------------------------------------------------------------- C16
\* The record after an update differs from the record before in updatedAt only,
\* and its updatedAt is strictly later.
OnlyUpdatedAtAdvanced(old, new) ==
    /\ DOMAIN new = DOMAIN old
    /\ \A k \in DOMAIN old \ {"updatedAt"} : new[k] = old[k]
    /\ new.updatedAt > old.updatedAt

\* C16: update(id, {}) of an existing record leaves every field as it was
\* except updatedAt, and the new updatedAt is strictly later than the old one.
C16_EmptyUpdateAdvances ==
    [][/\ (res'.op = "updatePosition" /\ res'.ok /\ res'.arg = <<>>) =>
             OnlyUpdatedAtAdvanced(MapGet(positions, res'.id),
                                   MapGet(positions', res'.id))
       /\ (res'.op = "updateCandidate" /\ res'.ok /\ res'.arg = <<>>) =>
             OnlyUpdatedAtAdvanced(MapGet(candidates, res'.id),
                                   MapGet(candidates', res'.id))]_vars

\* ---------------------------------------------------------------- C17
\* C17: the user collection holds at most one record per identity, each stored
\* under its own identity; an upsertUser adds the identity when it is new and
\* adds nothing else, and no step removes a user.
C17_OneUserPerIdentity ==
    [][/\ KeysAreIds(users')
       /\ MapKeys(users) \subseteq MapKeys(users')
       /\ IF res'.op = "upsertUser"
          THEN MapKeys(users') = MapKeys(users) \cup {res'.id}
          ELSE users' = users]_vars

\* The identity u1 has been upserted three times and u2 once: two records.
C17_Witness ==
    /\ res.op = "upsertUser"
    /\ res.id = "u1"
    /\ res.ret.createdAt = 1
    /\ res.ret.updatedAt = 3
    /\ res.ret.email = Null
    /\ MapKeys(users) = {"u1", "u2"}
    /\ Len(users) = 2
    /\ MapGet(users, "u1") = res.ret

\* ---------------------------------------------------------------- SpecCascade
\* Candidates that refer to the sample position by id and by title, and a
\* candidate that refers to a position by title only.
CascadeCandidates ==
    {[name |-> <<"D", "o", "e">>, email |-> <<"j", "@", "x">>, phone |-> "1",
      positionApplied |-> "Senior Frontend Developer", positionId |-> Some(1)],
     [name |-> <<"A", "l">>, email |-> <<"a", "@", "y">>, phone |-> "2",
      positionApplied |-> "Backend Developer"]}

CascadeFilterArgs == {Null, Some([position |-> "Senior Frontend Developer"])}

\* Positions created and deleted while candidates refer to them, and the
\* candidates listed and counted.
NextCascade ==
    \/ CanCreate(MaxAssigned)
       /\ \E position \in LifecyclePositions : Call(CreatePosition(position))
    \/ \E id \in Ids : Call(DeletePosition(id))
    \/ CanCreate(MaxAssigned)
       /\ \E candidate \in CascadeCandidates : Call(CreateCandidate(candidate))
    \/ \E filtersArg \in CascadeFilterArgs : Call(GetCandidates(filtersArg))
    \/ Call(GetDashboardStats)

SpecCascade == Init /\ [][NextCascade]_vars

\* ---------------------------------------------------------------- C18
\* The stored candidates that refer to a position that has been deleted, by id
\* or by a title no stored position has.
Dangling ==
    {c \in StoredCandidates :
        \/ c.positionId # Null /\ c.positionId[1] \in deleted.positions
        \/ \A p \in StoredPositions : p.title # c.positionApplied}

\* C18: deletePosition leaves the candidate collection as it was; the candidates
\* that referred to the deleted position keep their positionId and
\* positionApplied, are still listed by getCandidates and still counted by
\* getDashboardStats.
C18_DeleteDoesNotCascade ==
    [][/\ res'.op = "deletePosition" =>
             /\ candidates' = candidates
             /\ nextCandidateId' = nextCandidateId
       /\ res'.op = "getCandidates" =>
             /\ res'.arg = Null => Dangling \subseteq Listed(res'.ret)
             /\ res'.arg # Null =>
                   {c \in Dangling :
                       c.positionApplied = res'.arg[1].position}
                      \subseteq Listed(res'.ret)
       /\ res'.op = "getDashboardStats" =>
             res'.ret.totalCandidates
                = Cardinality(MapKeys(candidates) \cup
                              {c.id : c \in Dangling})]_vars

\* The sample position has been deleted; the candidate that applied for it is
\* listed under its title with positionId 1.
C18_Witness ==
    /\ res.op = "getCandidates"
    /\ res.arg = Some([position |-> "Senior Frontend Developer"])
    /\ deleted.positions = {1}
    /\ ~MapHas(positions, 1)
    /\ Len(res.ret) = 1
    /\ res.ret[1].positionId = Some(1)
    /\ res.ret[1].positionApplied = "Senior Frontend Developer"
    /\ res.ret[1] \in Dangling

\* ---------------------------------------------------------------- handlers in flight
\* A route handler runs without interruption from its start to its await, and
\* from its await to its end. The store methods are async functions without an
\* await of their own: the call made by `await storage.method(...)` runs the
\* whole method before the handler is suspended. Other handlers run while it is
\* suspended.
Suspend(route, req) ==
    /\ pending' = Append(pending, [route |-> route, admitted |-> req.admitted,
                                   call |-> res'])
    /\ UNCHANGED <<http, client>>

\* createPosition takes the id a create that is still in flight has taken: the
\* counter read before an await and written after it.
BeginPostPositionsStaleCounter(req) ==
    LET route == "POST /api/positions"
        validatedData == ZodParse(InsertPositionSchema, req.body)
        inFlight == {j \in DOMAIN pending : pending[j].call.op = "createPosition"}
        id == IF inFlight = {} THEN nextPositionId
              ELSE pending[CHOOSE j \in inFlight : TRUE].call.id
    IN  IF ~IsAuthenticated(req) THEN Unauthorized(route, req)
        ELSE IF ~validatedData.success
        THEN InvalidData(route, req, validatedData.errors)
        ELSE /\ \E t1 \in NewDate(now) : \E t2 \in NewDate(t1) :
                  LET newPosition == NewPosition(id, validatedData.data, t1, t2)
                  IN  /\ nextPositionId' = id + 1
                      /\ positions' = MapSet(positions, id, newPosition)
                      /\ now' = t2
                      /\ res' = [op |-> "createPosition", ok |-> TRUE,
                                 id |-> id, arg |-> validatedData.data,
                                 ret |-> newPosition]
                      /\ assigned' = [assigned EXCEPT !.positions = @ \cup {id}]
             /\ UNCHANGED <<users, candidates, nextCandidateId, deleted>>
             /\ Suspend(route, req)

BeginPostPositions(req) ==
    LET route == "POST /api/positions"
        validatedData == ZodParse(InsertPositionSchema, req.body)
    IN  IF ~IsAuthenticated(req) THEN Unauthorized(route, req)
        ELSE IF ~validatedData.success
        THEN InvalidData(route, req, validatedData.errors)
        ELSE /\ CreatePosition(validatedData.data)
             /\ Suspend(route, req)

\* An optimistic version check: an update is refused while another update of the
\* same record is still in flight.
BeginPutPositionVersionChecked(req) ==
    LET route == "PUT /api/positions/:id"
        id == ParseInt(req.params.id)
        validatedData == ZodParse(PartialSchema(InsertPositionSchema), req.body)
        conflict == \E j \in DOMAIN pending :
                        /\ pending[j].call.op = "updatePosition"
                        /\ pending[j].call.id = id
    IN  IF ~IsAuthenticated(req) THEN Unauthorized(route, req)
        ELSE IF ~validatedData.success
        THEN InvalidData(route, req, validatedData.errors)
        ELSE IF conflict
        THEN /\ res' = [op |-> "updatePosition", ok |-> FALSE, id |-> id,
                        arg |-> validatedData.data, ret |-> "conflict"]
             /\ UNCHANGED <<store, now, assigned, deleted>>
             /\ Suspend(route, req)
        ELSE /\ UpdatePosition(id, validatedData.data)
             /\ Suspend(route, req)

BeginPutPosition(req) ==
    LET route == "PUT /api/positions/:id"
        id == ParseInt(req.params.id)
        validatedData == ZodParse(PartialSchema(InsertPositionSchema), req.body)
    IN  IF ~IsAuthenticated(req) THEN Unauthorized(route, req)
        ELSE IF ~validatedData.success
        THEN InvalidData(route, req, validatedData.errors)
        ELSE /\ UpdatePosition(id, validatedData.data)
             /\ Suspend(route, req)

\* What the catch block of a route answers when the store call threw.
FailureMessage(route) ==
    IF route = "POST /api/positions" THEN Message("Failed to create position")
    ELSE Message("Failed to update position")

RemoveAt(seq, i) == SubSeq(seq, 1, i - 1) \o SubSeq(seq, i + 1, Len(seq))

\* The handler pending[i] resumes after its await and answers.
Resume(i) ==
    LET h == pending[i] IN
    /\ NoStoreCall
    /\ pending' = RemoveAt(pending, i)
    /\ UNCHANGED client
    /\ IF ~h.call.ok THEN Send(h.route, h.admitted, 500, FailureMessage(h.route))
       ELSE IF h.call.op = "createPosition"
       THEN Send(h.route, h.admitted, 201, h.call.ret)
       ELSE Send(h.route, h.admitted, 200, h.call.ret)

\* ---------------------------------------------------------------- SpecInFlight
InFlightPositionBodies ==
    {[title |-> JStr("Backend Developer"), department |-> JStr("Engineering"),
      location |-> JStr("Remote")]}

\* Two updates that supply different fields.
InFlightPositionUpdateBodies ==
    {[title |-> JStr("QA Engineer")], [status |-> JStr("Closed")]}

InFlightIdParams == {[id |-> <<"1">>]}

\* Admitted requests to the position routes, each started while earlier ones
\* are still suspended, and resumed in any order.
NextInFlight ==
    \/ /\ Len(pending) < MaxInFlight
       /\ CanCreate(MaxAssigned)
       /\ \E body \in InFlightPositionBodies :
             BeginPostPositions(Request(TRUE, <<>>, <<>>, body))
    \/ /\ Len(pending) < MaxInFlight
       /\ \E params \in InFlightIdParams, body \in InFlightPositionUpdateBodies :
             BeginPutPosition(Request(TRUE, params, <<>>, body))
    \/ \E i \in DOMAIN pending : Resume(i)

SpecInFlight == Init /\ [][NextInFlight]_vars

\* ---------------------------------------------------------------- C20
\* The handlers in flight whose store call was a successful op.
InFlight(op) ==
    {j \in DOMAIN pending : pending[j].call.op = op /\ pending[j].call.ok}

\* Any two creates in flight have different ids, and the record of each is
\* stored with the fields it was created with.
CreatesKeepApart ==
    /\ \A i, j \in InFlight("createPosition") :
          i # j => pending[i].call.id # pending[j].call.id
    /\ \A i \in InFlight("createPosition") :
          LET created == pending[i].call.ret IN
          /\ MapHas(positions, created.id)
          /\ MapGet(positions, created.id).createdAt = created.createdAt
          /\ MapGet(positions, created.id).department = created.department

\* No update in flight has been lost: each field it supplied is in the stored
\* record (the updates here supply different fields, so none overwrites
\* another's).
UpdatesKeepApart ==
    \A i \in InFlight("updatePosition") :
        LET call == pending[i].call IN
        /\ MapHas(positions, call.id)
        /\ \A k \in DOMAIN call.arg : MapGet(positions, call.id)[k] = call.arg[k]

\* C20: with handlers interleaving at their awaits, every store call is one
\* atomic step: two creates in flight together get different ids and both
\* records are stored, and every update is computed from the record stored at
\* the moment of the call, so no update in flight is lost.
C20_StoreCallsAreAtomic ==
    [][/\ CreatesKeepApart'
       /\ UpdatesKeepApart'
       /\ (res'.op = "updatePosition" /\ res'.ok) =>
             MergeContract(positions, positions', res'.id, res'.arg, res'.ret)]_vars

\* Two creates are in flight together, with ids 2 and 3 and both records
\* stored, after two updates of the sample position that were in flight
\* together and whose fields are both in the stored record.
C20_Witness ==
    /\ Len(pending) = 2
    /\ pending[1].call.op = "createPosition"
    /\ pending[2].call.op = "createPosition"
    /\ {pending[1].call.id, pending[2].call.id} = {2, 3}
    /\ MapKeys(positions) = {1, 2, 3}
    /\ MapGet(positions, 1).title = "QA Engineer"
    /\ MapGet(positions, 1).status = "Closed"

\* ---------------------------------------------------------------- SpecLastWrite
\* Updates that supply the same fields with different values.
LastWritePositionUpdateBodies ==
    {[status |-> JStr("Closed")],
     [status |-> JStr("On Hold"), title |-> JStr("QA Engineer")],
     [title |-> JStr("Data Engineer")]}

\* Admitted updates of the sample position, each started while earlier ones are
\* still suspended, and resumed in any order.
NextLastWrite ==
    \/ /\ Len(pending) < MaxInFlight
       /\ \E params \in InFlightIdParams, body \in LastWritePositionUpdateBodies :
             BeginPutPosition(Request(TRUE, params, <<>>, body))
    \/ \E i \in DOMAIN pending : Resume(i)

SpecLastWrite == Init /\ [][NextLastWrite]_vars

\* ---------------------------------------------------------------- C21
\* An update of an existing record is called while another update of the same
\* record is in flight.
UpdateMeetsUpdate ==
    /\ res'.op = "updatePosition"
    /\ MapHas(positions, res'.id)
    /\ \E j \in DOMAIN pending :
          /\ pending[j].call.op = "updatePosition"
          /\ pending[j].call.id = res'.id

\* C21: two updates of the same existing record that are in flight together
\* both succeed; after the one that executes last, every field it supplied
\* holds its value, the fields of the earlier one included; and each is answered
\* 200 when it resumes, never with a conflict error.
C21_LastWriteWins ==
    [][/\ UpdateMeetsUpdate =>
             /\ res'.ok
             /\ \A k \in DOMAIN res'.arg :
                   MapGet(positions', res'.id)[k] = res'.arg[k]
             /\ \A j \in DOMAIN pending : pending'[j] = pending[j]
             /\ \A j \in DOMAIN pending' : pending'[j].call.ok
       /\ Len(pending') < Len(pending) => http'.status = 200]_vars

\* The update to "On Hold" was called while the update to "Closed" was in
\* flight: both are in flight, neither failed, and the status is "On Hold".
C21_Witness ==
    /\ Len(pending) = 2
    /\ pending[1].call.arg = [status |-> "Closed"]
    /\ pending[2].call.arg = [status |-> "On Hold", title |-> "QA Engineer"]
    /\ pending[1].call.ok
    /\ pending[2].call.ok
    /\ pending[1].call.ret.status = "Closed"
    /\ MapGet(positions, 1).status = "On Hold"
    /\ res = pending[2].call

\* ---------------------------------------------------------------- C22
\* C22: the id a create returns is the value of its own collection's counter,
\* and no create or delete of one collection changes the counter of the other:
\* createPosition and deletePosition leave the id of the next createCandidate as
\* it was, createCandidate and deleteCandidate that of the next createPosition.
C22_CountersAreIndependent ==
    [][/\ res'.op = "createPosition" => res'.ret.id = nextPositionId
       /\ res'.op = "createCandidate" => res'.ret.id = nextCandidateId
       /\ res'.op \in {"createPosition", "deletePosition"} =>
             nextCandidateId' = nextCandidateId
       /\ res'.op \in {"createCandidate", "deleteCandidate"} =>
             nextPositionId' = nextPositionId]_vars

\* The first candidate is created with id 1 after a position was created with
\* id 2 and a position was deleted.
C22_Witness ==
    /\ res.op = "createCandidate"
    /\ res.ret.id = 1
    /\ assigned.positions = {1, 2}
    /\ deleted.positions # {}
    /\ nextPositionId = 3
    /\ nextCandidateId = 2

\* ---------------------------------------------------------------- the client
\* The queries the pages keep in the cache, by query key. The candidate list is
\* cached under ["/api/candidates", filters].
CachedQueries ==
    {<<"/api/auth/user">>, <<"/api/dashboard/stats">>, <<"/api/positions">>,
     <<"/api/candidates", "filters">>}

\* queryClient.invalidateQueries({ queryKey }): every cached query whose key
\* starts with queryKey.
InvalidateQueries(queryKey) ==
    {q \in CachedQueries :
        /\ Len(queryKey) <= Len(q)
        /\ SubSeq(q, 1, Len(queryKey)) = queryKey}

\* apiRequest (client/src/lib/queryClient.ts) resolves for a response with a 2xx
\* status and throws for any other response and when no response arrives
\* (status 0 here).
ApiRequestOk(status) == status \in 200..299

\* isUnauthorizedError (client/src/lib/authUtils.ts): the error of a 401.
IsUnauthorizedError(status) == status = 401

\* mutation.mutate(...): the request is sent; no response has arrived.
Mutate(mutation) ==
    /\ client.location = "app"
    /\ client.mutation = "none"
    /\ client' = [client EXCEPT !.mutation = mutation, !.invalidated = {},
                                !.toast = "none"]
    /\ http' = [route |-> "none", admitted |-> TRUE, status |-> 0, body |-> <<>>]
    /\ NoStoreCall
    /\ UNCHANGED pending

\* The request of the mutation in flight has not been answered yet.
Sent(mutation) == client.mutation = mutation /\ http.status = 0

\* The onError callback, the same in every mutation: on a 401 the "Unauthorized"
\* toast and a timer that will load /api/login, and return; otherwise the
\* "Error" toast.
OnError ==
    IF IsUnauthorizedError(http.status)
    THEN [client EXCEPT !.mutation = "none", !.toast = "Unauthorized",
                        !.timer = TRUE]
    ELSE [client EXCEPT !.mutation = "none", !.toast = "Error"]

Settled(mutation, onSuccess) ==
    /\ client.location = "app"
    /\ client.mutation = mutation
    /\ client' = IF ApiRequestOk(http.status) THEN onSuccess ELSE OnError
    /\ NoStoreCall
    /\ UNCHANGED <<http, pending>>

\* deleteMutation of the positions page.
DeletePositionSettled ==
    Settled("deletePosition",
            [client EXCEPT !.mutation = "none",
                           !.invalidated =
                               InvalidateQueries(<<"/api/positions">>)
                               \cup InvalidateQueries(<<"/api/dashboard/stats">>),
                           !.toast = "Success"])

\* deleteMutation of the candidates page.
DeleteCandidateSettled ==
    Settled("deleteCandidate",
            [client EXCEPT !.mutation = "none",
                           !.invalidated =
                               InvalidateQueries(<<"/api/candidates">>)
                               \cup InvalidateQueries(<<"/api/dashboard/stats">>),
                           !.toast = "Success"])

\* The form's onSuccess without the second invalidateQueries call.
CandidateFormSettledListOnly ==
    Settled("candidateForm",
            [client EXCEPT !.mutation = "none",
                           !.invalidated =
                               InvalidateQueries(<<"/api/candidates">>),
                           !.toast = "Success"])

\* mutation of the candidate form: POST when adding, PUT when editing.
CandidateFormSettled ==
    Settled("candidateForm",
            [client EXCEPT !.mutation = "none",
                           !.invalidated =
                               InvalidateQueries(<<"/api/candidates">>)
                               \cup InvalidateQueries(<<"/api/dashboard/stats">>),
                           !.toast = "Success"])

\* mutation of the position form (client/src/components/position-form.tsx).
PositionFormSettled ==
    Settled("positionForm",
            [client EXCEPT !.mutation = "none",
                           !.invalidated =
                               InvalidateQueries(<<"/api/positions">>)
                               \cup InvalidateQueries(<<"/api/dashboard/stats">>),
                           !.toast = "Success"])

\* The timer set by onError fires: window.location.href = "/api/login".
LoginRedirect ==
    /\ client.location = "app"
    /\ client.timer
    /\ client' = [client EXCEPT !.location = "/api/login", !.timer = FALSE,
                                !.mutation = "none"]
    /\ NoStoreCall
    /\ UNCHANGED <<http, pending>>

\* ---------------------------------------------------------------- SpecClient
Mutations == {"deletePosition", "deleteCandidate", "candidateForm", "positionForm"}

ClientIdParams == {[id |-> <<"1">>], [id |-> <<"2">>]}

ClientPositionBodies ==
    {[title |-> JStr("Backend Developer"), department |-> JStr("Engineering"),
      location |-> JStr("Remote")],
     [department |-> JStr("Engineering"), location |-> JStr("Remote")]}

ClientCandidateBodies ==
    {[name |-> JStr(<<"D", "o", "e">>), email |-> JStr(<<"j", "@", "x">>),
      phone |-> JStr("1"), positionApplied |-> JStr("Backend Developer"),
      status |-> JStr("New")],
     [name |-> JStr(<<"D", "o", "e">>), email |-> JStr(<<"j", "@", "x">>),
      phone |-> JStr("1"), status |-> JStr("New")]}

\* The page starts mutations one at a time; the server answers each from a
\* session that is logged in or has expired, or no answer arrives; the
\* callbacks run; the re-login timer fires.
NextClient ==
    \/ \E mutation \in Mutations : Mutate(mutation)
    \/ /\ Sent("deletePosition")
       /\ \E a \in BOOLEAN, params \in ClientIdParams :
             DeletePositionRoute(Request(a, params, <<>>, <<>>))
    \/ /\ Sent("deleteCandidate")
       /\ \E a \in BOOLEAN, params \in ClientIdParams :
             DeleteCandidateRoute(Request(a, params, <<>>, <<>>))
    \/ /\ Sent("candidateForm")
       /\ CanCreate(MaxAssigned)
       /\ \E a \in BOOLEAN, body \in ClientCandidateBodies :
             PostCandidatesRoute(Request(a, <<>>, <<>>, body))
    \/ /\ Sent("candidateForm")
       /\ \E a \in BOOLEAN, params \in ClientIdParams, body \in ClientCandidateBodies :
             PutCandidateRoute(Request(a, params, <<>>, body))
    \/ /\ Sent("positionForm")
       /\ CanCreate(MaxAssigned)
       /\ \E a \in BOOLEAN, body \in ClientPositionBodies :
             PostPositionsRoute(Request(a, <<>>, <<>>, body))
    \/ /\ Sent("positionForm")
       /\ \E a \in BOOLEAN, params \in ClientIdParams, body \in ClientPositionBodies :
             PutPositionRoute(Request(a, params, <<>>, body))
    \/ DeletePositionSettled
    \/ DeleteCandidateSettled
    \/ CandidateFormSettled
    \/ PositionFormSettled
    \/ LoginRedirect

SpecClient == Init /\ [][NextClient]_vars

\* ---------------------------------------------------------------- C23
\* The cached list a mutation affects.
ListOf(mutation) ==
    IF mutation \in {"deletePosition", "positionForm"}
    THEN {<<"/api/positions">>}
    ELSE {<<"/api/candidates", "filters">>}

\* A step in which the callbacks of the mutation in flight run.
CallbacksRun ==
    /\ client.mutation # "none"
    /\ client'.mutation = "none"
    /\ client'.location = "app"

\* C23: when a create, update or delete mutation succeeds, its callbacks
\* invalidate the cached list of its collection and the cached dashboard stats;
\* when it fails they invalidate nothing; on a 401 they start the re-login
\* redirect and do not show the generic failure notification, which every other
\* failure shows.
C23_MutationCallbacks ==
    [][CallbacksRun =>
          IF http.status \in 200..299
          THEN /\ ListOf(client.mutation) \subseteq client'.invalidated
               /\ <<"/api/dashboard/stats">> \in client'.invalidated
               /\ client'.timer = client.timer
          ELSE /\ client'.invalidated = {}
               /\ IF http.status = 401
                  THEN client'.timer /\ client'.toast = "Unauthorized"
                  ELSE client'.timer = client.timer /\ client'.toast = "Error"]_vars

\* A candidate was added through the form: the candidate list and the stats are
\* invalidated, after an earlier mutation met a 401 and armed the re-login.
C23_Witness ==
    /\ client.mutation = "none"
    /\ client.location = "app"
    /\ http.route = "POST /api/candidates"
    /\ http.status = 201
    /\ client.toast = "Success"
    /\ client.invalidated = {<<"/api/candidates", "filters">>,
                             <<"/api/dashboard/stats">>}
    /\ client.timer
    /\ MapHas(candidates, 1)

\* ---------------------------------------------------------------- SpecReads
ReadUserDatas == {[id |-> "u1", email |-> Some("a@x")]}

ReadUserIds == {"u1", "u2"}

ReadFilterArgs == {Null, Some([search |-> <<"D", "O", "E">>])}

\* Records of the three collections are written, and every read is made.
NextReads ==
    \/ CanCreate(MaxAssigned)
       /\ \E position \in LifecyclePositions : Call(CreatePosition(position))
    \/ CanCreate(MaxAssigned)
       /\ \E candidate \in LifecycleCandidates : Call(CreateCandidate(candidate))
    \/ \E userData \in ReadUserDatas : Call(UpsertUser(userData))
    \/ \E id \in ReadUserIds : Call(GetUser(id))
    \/ Call(GetPositions)
    \/ \E filtersArg \in ReadFilterArgs : Call(GetCandidates(filtersArg))
    \/ Call(GetDashboardStats)

SpecReads == Init /\ [][NextReads]_vars

\* ---------------------------------------------------------------- C24
ReadOps == {"getUser", "getPositions", "getCandidates", "getDashboardStats"}

\* C24: getUser, getPositions, getCandidates and getDashboardStats leave the
\* three collections and the two id counters as they were, and with them the
\* order in which a later listing returns the records.
C24_ReadsChangeNothing ==
    [][res'.op \in ReadOps =>
          /\ UNCHANGED <<users, positions, candidates, nextPositionId,
                         nextCandidateId>>
          /\ GetPositionsResult' = GetPositionsResult
          /\ GetCandidatesResult(Null)' = GetCandidatesResult(Null)]_vars

\* getPositions lists the newer position first, the reverse of the order the
\* Map holds them in, while a candidate and a user are stored.
C24_Witness ==
    /\ res.op = "getPositions"
    /\ Len(res.ret) = 2
    /\ res.ret[1].id = 2
    /\ res.ret[1].createdAt > res.ret[2].createdAt
    /\ positions[1].key = 1
    /\ positions[2].key = 2
    /\ MapHas(candidates, 1)
    /\ MapHas(users, "u1")

\* ---------------------------------------------------------------- C25
\* The call leaves the profile field out: the key is absent, null or "".
LeftOut(userData, key) ==
    \/ key \notin DOMAIN userData
    \/ userData[key] = Null
    \/ userData[key] = Some("")

\* C25: an upsertUser of an identity that is already stored replaces the record:
\* each of email, firstName, lastName, profileImageUrl that the call omits or
\* supplies as the empty string is null in the stored record, whatever it was
\* before; every other field is the supplied value; only createdAt is kept.
C25_UpsertReplaces ==
    [][(res'.op = "upsertUser" /\ MapHas(users, res'.id)) =>
          LET stored == MapGet(users', res'.id) IN
          /\ stored = res'.ret
          /\ \A k \in ProfileFields :
                stored[k] = IF LeftOut(res'.arg, k) THEN Null ELSE res'.arg[k]
          /\ stored.createdAt = MapGet(users, res'.id).createdAt
          /\ stored.updatedAt = now']_vars

\* The identity was stored with a last name and an image; a later call that
\* omits both leaves them null.
C25_Witness ==
    /\ res.op = "upsertUser"
    /\ res.id = "u1"
    /\ DOMAIN res.arg = {"id", "email", "firstName"}
    /\ res.ret.createdAt < res.ret.updatedAt
    /\ MapGet(users, "u1").lastName = Null
    /\ MapGet(users, "u1").profileImageUrl = Null
    /\ MapGet(users, "u1").email = Some("b@x")

\* ---------------------------------------------------------------- SpecOrder
\* The first record of each collection is the one that is updated.
OrderIds == {1}

\* Records created within one clock tick and across ticks, updated, and listed.
NextOrder ==
    \/ CanCreate(MaxAssigned)
       /\ \E position \in LifecyclePositions : Call(CreatePosition(position))
    \/ \E id \in OrderIds, position \in LifecyclePositionUpdates :
          Call(UpdatePosition(id, position))
    \/ Call(GetPositions)
    \/ CanCreate(MaxAssigned)
       /\ \E candidate \in LifecycleCandidates : Call(CreateCandidate(candidate))
    \/ \E id \in OrderIds, candidate \in LifecycleCandidateUpdates :
          Call(UpdateCandidate(id, candidate))
    \/ Call(GetCandidates(Null))

SpecOrder == Init /\ [][NextOrder]_vars

\* ---------------------------------------------------------------- C26
IdsOf(list) == [i \in DOMAIN list |-> list[i].id]

CreatedAtOf(m) == [k \in MapKeys(m) |-> MapGet(m, k).createdAt]

\* C26: an update changes no record's createdAt, and getPositions and
\* getCandidates list the records in the same order after it as before it.
C26_UpdateKeepsListingOrder ==
    [][(res'.op \in {"updatePosition", "updateCandidate"} /\ res'.ok) =>
          /\ CreatedAtOf(positions') = CreatedAtOf(positions)
          /\ CreatedAtOf(candidates') = CreatedAtOf(candidates)
          /\ IdsOf(GetPositionsResult') = IdsOf(GetPositionsResult)
          /\ IdsOf(GetCandidatesResult(Null)') = IdsOf(GetCandidatesResult(Null))]_vars

\* The older of two positions is updated after the newer one was created: its
\* updatedAt is now the latest timestamp in the store, and it is still listed
\* second.
C26_Witness ==
    /\ res.op = "updatePosition"
    /\ res.ok
    /\ res.id = 1
    /\ MapHas(positions, 2)
    /\ MapGet(positions, 2).createdAt > MapGet(positions, 1).createdAt
    /\ MapGet(positions, 1).updatedAt > MapGet(positions, 2).updatedAt
    /\ IdsOf(GetPositionsResult) = <<2, 1>>

\* ---------------------------------------------------------------- C27
TiesInIdOrder(list) ==
    \A i, j \in DOMAIN list :
        (i < j /\ list[i].createdAt = list[j].createdAt) =>
            list[i].id < list[j].id

\* C27: records with equal createdAt are listed by getPositions and
\* getCandidates in ascending order of id, the order they were inserted in,
\* also after any of them has been updated.
C27_TiesListedOldestFirst ==
    res.op \in {"getPositions", "getCandidates"} => TiesInIdOrder(res.ret)

\* Two candidates created within one clock tick are listed with id 1 first,
\* after the first of them was updated at a later tick.
C27_Witness ==
    /\ res.op = "getCandidates"
    /\ Len(res.ret) = 2
    /\ res.ret[1].createdAt = res.ret[2].createdAt
    /\ res.ret[1].id = 1
    /\ res.ret[2].id = 2
    /\ res.ret[1].updatedAt > res.ret[2].updatedAt
    /\ res.ret[1].status = "Shortlisted"

\* ---------------------------------------------------------------- SpecEmptyFilter
EmptyFilterCandidates ==
    {[name |-> <<"D", "o", "e">>, email |-> <<"j", "@", "x">>, phone |-> "1",
      positionApplied |-> "Backend Developer"],
     [name |-> <<"A", "l">>, email |-> <<"a", "@", "y">>, phone |-> "2",
      positionApplied |-> "", status |-> "In Review"]}

\* A status set to the empty string, which the schema accepts.
EmptyFilterCandidateUpdates == {[status |-> ""]}

\* Query strings with parameters that are present but empty, alone and next to
\* a parameter that is not.
EmptyFilterQueries ==
    {<<>>,
     [status |-> ""],
     [position |-> "", search |-> <<>>],
     [position |-> "", status |-> "In Review"],
     [status |-> "", search |-> <<"o">>],
     [search |-> <<"o">>]}

NextEmptyFilter ==
    \/ CanCreate(MaxAssigned)
       /\ \E candidate \in EmptyFilterCandidates :
             Call(CreateCandidate(candidate))
    \/ \E id \in OrderIds, candidate \in EmptyFilterCandidateUpdates :
          Call(UpdateCandidate(id, candidate))
    \/ \E query \in EmptyFilterQueries :
          GetCandidatesRoute(Request(TRUE, <<>>, query, <<>>))

SpecEmptyFilter == Init /\ [][NextEmptyFilter]_vars

\* ---------------------------------------------------------------- C28
\* The filters without the parameters that are present but empty.
WithoutEmpty(filters) ==
    [k \in NonEmptyFilters(filters) |-> filters[k]]

\* C28: GET /candidates with position, status or search present but empty
\* answers what the request without that parameter would answer; when every
\* parameter present is empty that is every stored candidate, not the
\* candidates whose field is the empty string.
C28_EmptyFilterIsAbsent ==
    (http.route = "GET /api/candidates" /\ res.op = "getCandidates") =>
        /\ http.status = 200
        /\ http.body = GetCandidatesResult(Some(WithoutEmpty(res.arg[1])))
        /\ NonEmptyFilters(res.arg[1]) = {} =>
              ListsExactly(http.body, StoredCandidates)

\* GET /candidates?status= lists both candidates, the one whose status is the
\* empty string and the one whose status is "In Review".
C28_Witness ==
    /\ http.route = "GET /api/candidates"
    /\ res.op = "getCandidates"
    /\ res.arg = Some([status |-> ""])
    /\ Len(http.body) = 2
    /\ \E c \in Listed(http.body) : c.status = ""
    /\ \E c \in Listed(http.body) : c.status = "In Review"

\* ---------------------------------------------------------------- C29
KeysBelowCounters ==
    /\ \A k \in MapKeys(positions) : k >= 1 /\ k < nextPositionId
    /\ \A k \in MapKeys(candidates) : k >= 1 /\ k < nextCandidateId

\* C29: from the seeded state (position 1, no candidates, no users) every key
\* of the position collection is >= 1 and < nextPositionId, every key of the
\* candidate collection is >= 1 and < nextCandidateId, and no step lowers
\* either counter.
C29_KeysBelowCounters ==
    /\ MapKeys(positions) = {1} /\ candidates = <<>> /\ users = <<>>
    /\ [](KeysBelowCounters)
    /\ [][/\ nextPositionId' >= nextPositionId
          /\ nextCandidateId' >= nextCandidateId]_vars

\* The newest record of each collection has been deleted: the counters stay
\* above ids that are no longer keys.
C29_Witness ==
    /\ res.op = "deleteCandidate"
    /\ res.ok
    /\ res.id = nextCandidateId - 1
    /\ nextPositionId - 1 \in deleted.positions
    /\ MapKeys(positions) = {1}
    /\ nextPositionId = 3
    /\ MapKeys(candidates) = {}
    /\ nextCandidateId = 2

====
